---------------------------- MODULE Spec2Model ----------------------------
(***************************************************************************)
(* State-machine model of the Growatt dashboard proxy of src/public/app.js *)
(* (server part, lines 209-886): the shared session object, the cookie     *)
(* jar, login with device discovery, ensureSession, withSessionRetry, the  *)
(* three storage sources, plant detail, and the /api/connect and /api/data *)
(* handlers with the 60 s cache.                                           *)
(*                                                                         *)
(* Conventions.  Node runs the handlers on one thread: a handler runs      *)
(* without interruption from one network await to the next, so every       *)
(* action below is one such run (from the arrival of a request or of an    *)
(* upstream response to the next awaited upstream call or to the response  *)
(* of the handler).  Overlapping requests interleave at these awaits.      *)
(* JavaScript null/undefined is modelled by the falsy value of the same    *)
(* type: 0 for a timestamp, "" for an identifier, <<>> for a string of     *)
(* characters or an optional object; the code only ever tests these        *)
(* fields for truthiness.  Text that the code splits (cookies) is a        *)
(* sequence of one-character strings.                                      *)
(***************************************************************************)
EXTENDS Integers, Sequences, FiniteSets, TLC

VARIABLES
  session,     \* the process-wide session object (app.js 256-265)
  cookieJar,   \* the process-wide Map name -> value, in insertion order
  now,         \* Date.now(), in milliseconds
  ticks,       \* how many times the clock has advanced (bounds the model)
  creds,       \* GROWATT_USERNAME and GROWATT_PASSWORD are both set
  req,         \* per request slot: the handler's position and locals
  started,     \* how many requests have arrived (bounds the model)
  out,         \* the response sent by the last step, if it sent one
  trace,       \* the calls the handler made during the last step, in order
  captured,    \* cookie specification only: the Set-Cookie lists captured
  call,        \* function specifications only: a call, its arguments, its result
  page,        \* page specification only: the dashboard page (app.js 1-207)
  answered     \* termination specification only: per slot, the upstream
               \* calls of its request that have returned or failed

vars == <<session, cookieJar, now, ticks, creds, req, started, out, trace, captured, call, page,
          answered>>

\* the variables of the server
server == <<session, cookieJar, now, ticks, creds, req, started, out, trace>>

-----------------------------------------------------------------------------
(* Program constants *)

\* const SESSION_TTL = 30 * 60 * 1000
SESSION_TTL == 30 * 60 * 1000
\* const DATA_CACHE_TTL = 60 * 1000
DATA_CACHE_TTL == 60 * 1000
\* const REFRESH_MS = 5 * 60 * 1000
REFRESH_MS == 5 * 60 * 1000

\* session.lastLogin: null  /  session.lastFetch: 0
NullTime == 0

(* Bounds of the model *)

\* number of request slots: requests that can be in flight at the same time
NumSlots == 2
\* number of clock advances explored
MaxTicks == 2
\* number of requests that arrive
MaxRequests == 3
\* cookie specification: number of responses whose cookies are captured
MaxCaptures == 2
\* numeric coalesce specification: number of candidates of a call of pf
MaxCandidates == 4
\* credential hash specification: length of the hex digest (32 in the
\* program) and number of times the same password is hashed
HexLen == 4
MaxHashCalls == 2
\* page specification: number of calls of connect() and of clock advances
MaxConnects == 2
MaxPageTicks == 4
\* device discovery specification: number of devices of a listing
MaxDevices == 2
\* tolerant parsing specification: every text up to this length is a body
MaxTextLen == 3
\* termination specification: number of requests that arrive, and a cap on
\* the upstream calls of one request
MaxLiveRequests == 1
MaxCalls == 20

Slots == 1..NumSlots

\* The clock advances by half a cache window or by the rest of a session
\* lifetime, so that ages just under, exactly at and over both TTLs occur.
ShortStep == DATA_CACHE_TTL \div 2
LongStep == SESSION_TTL - ShortStep
TickSteps == {ShortStep, LongStep}
\* Date.now() at process start: any positive epoch time
Epoch == 1000 * SESSION_TTL

-----------------------------------------------------------------------------
(* Text helpers: a text is a sequence of one-character strings *)

\* String.prototype.indexOf(c): first position of c, 0 when absent
IndexOf(s, c) ==
  IF \E i \in 1..Len(s) : s[i] = c
    THEN CHOOSE i \in 1..Len(s) : s[i] = c /\ \A j \in 1..(i - 1) : s[j] # c
    ELSE 0

RECURSIVE TrimLeft(_)
TrimLeft(s) == IF s # <<>> /\ Head(s) = " " THEN TrimLeft(Tail(s)) ELSE s

RECURSIVE TrimRight(_)
TrimRight(s) ==
  IF s # <<>> /\ s[Len(s)] = " " THEN TrimRight(SubSeq(s, 1, Len(s) - 1)) ELSE s

\* String.prototype.trim()
Trim(s) == TrimRight(TrimLeft(s))

\* raw.split(';')[0]
BeforeSemicolon(raw) ==
  IF IndexOf(raw, ";") = 0 THEN raw ELSE SubSeq(raw, 1, IndexOf(raw, ";") - 1)

-----------------------------------------------------------------------------
(* Cookie jar (app.js 286-314) *)

\* a jar that keeps the first value set for a name
JarSet_KeepFirst(jar, name, value) ==
  IF \E i \in 1..Len(jar) : jar[i].name = name
    THEN jar
    ELSE Append(jar, [name |-> name, value |-> value])

\* Map.prototype.set: overwrite in place, or append a new entry
JarSet(jar, name, value) ==
  IF \E i \in 1..Len(jar) : jar[i].name = name
    THEN [i \in 1..Len(jar) |->
            IF jar[i].name = name THEN [name |-> name, value |-> value] ELSE jar[i]]
    ELSE Append(jar, [name |-> name, value |-> value])

\* one iteration of the loop over the Set-Cookie values (296-306)
CaptureOne(jar, raw) ==
  LET pair == Trim(BeforeSemicolon(raw))
      eqIdx == IndexOf(pair, "=")
      name == Trim(SubSeq(pair, 1, eqIdx - 1))
      value == Trim(SubSeq(pair, eqIdx + 1, Len(pair)))
  IN IF pair = <<>> \/ eqIdx = 0 THEN jar
     ELSE IF name # <<>> THEN JarSet(jar, name, value)
     ELSE jar

RECURSIVE CaptureAll(_, _)
CaptureAll(jar, setCookies) ==
  IF setCookies = <<>> THEN jar
  ELSE CaptureAll(CaptureOne(jar, Head(setCookies)), Tail(setCookies))

\* Array.from(cookieJar.entries()).map(([k, v]) => `${k}=${v}`).join('; ')
RECURSIVE JoinJar(_)
JoinJar(jar) ==
  IF jar = <<>> THEN <<>>
  ELSE LET kv == jar[1].name \o <<"=">> \o jar[1].value
       IN IF Len(jar) = 1 THEN kv ELSE kv \o <<";", " ">> \o JoinJar(Tail(jar))

\* session.cookies as rebuilt from the jar (308-311): '' || null is null
CookieHeader(jar) == JoinJar(jar)

\* captureCookies(res): w is the world [s, jar, q] of the running handler
captureCookies(w, setCookies) ==
  LET jar2 == CaptureAll(w.jar, setCookies)
  IN [w EXCEPT !.jar = jar2, !.s.cookies = CookieHeader(jar2)]

-----------------------------------------------------------------------------
(* Error messages.  The code inspects a message only with includes(...) of *)
(* four markers, so a message is a string together with the markers that   *)
(* occur in it.                                                            *)

NoErr == ""
\* login, line 386
ConfigErrMsg == "GROWATT_USERNAME and GROWATT_PASSWORD must be set in .env"
\* the TypeError of fetch() on a transport failure (367-370, 414-421)
NetErrMsg == "fetch failed"
\* login, line 443
LoginNonJsonMsg == "Login returned non-JSON"
\* login, line 449
LoginNoBackMsg == "Login failed: no back in response"
\* login, line 455, with the vendor's message
LoginRejectedMsg == "Login failed: 501"
\* login, line 467
NoPlantsMsg == "Login succeeded but no plants found"
\* login, line 470: user.id with back.user absent
NoUserMsg == "Cannot read properties of undefined (reading 'id')"
\* getStorageData, line 565
NoDeviceMsg == "No device discovered. Try reconnecting."
\* safeJson, line 325
SessionExpiredMsg(label) == "session_expired: " \o label \o " returned HTML"

Labels ==
  {"DeviceListTwo", "DeviceListAll", "StorageDetail", "EnergyOverview",
   "StorageParams", "PlantDetail"}

\* the markers that occur in a message
Markers(msg) ==
  IF msg \in {SessionExpiredMsg(l) : l \in Labels} THEN {"session", "session_expired"}
  ELSE IF msg = LoginNonJsonMsg THEN {"Login", "non-JSON"}
  ELSE IF msg \in {LoginNoBackMsg, LoginRejectedMsg, NoPlantsMsg} THEN {"Login"}
  ELSE {}

\* err.message.includes(marker)
Includes(msg, marker) == marker \in Markers(msg)

-----------------------------------------------------------------------------
(* Upstream responses: what the vendor API may answer.  net = FALSE is a   *)
(* transport failure (fetch rejects).                                      *)

\* Set-Cookie: JSESSIONID-like cookie with an attribute
SessionCookie == <<"s", "=", "1", ";", " ", "P">>
TokenCookie == <<"t", "=", "2">>

EmptyObj == <<>>

Plant(id, name) == [plantId |-> id, plantName |-> name]

LoginResponses ==
  LET R(net, ck, json, back, ok, user, plants) ==
        [net |-> net, setCookie |-> ck, json |-> json, hasBack |-> back,
         success |-> ok, hasUser |-> user, userId |-> "u1", country |-> "ZA",
         plants |-> plants]
  IN { R(FALSE, <<>>, FALSE, FALSE, FALSE, FALSE, <<>>),
       R(TRUE, <<>>, FALSE, FALSE, FALSE, FALSE, <<>>),
       R(TRUE, <<>>, TRUE, FALSE, FALSE, FALSE, <<>>),
       R(TRUE, <<>>, TRUE, TRUE, FALSE, FALSE, <<>>),
       R(TRUE, <<SessionCookie>>, TRUE, TRUE, TRUE, TRUE, <<>>),
       R(TRUE, <<SessionCookie>>, TRUE, TRUE, TRUE, FALSE, <<Plant("9001", "Home")>>),
       R(TRUE, <<SessionCookie, TokenCookie>>, TRUE, TRUE, TRUE, TRUE,
         <<Plant("9001", "Home"), Plant("9002", "Barn")>>) }

\* a response read by safeJson: kind "json" (value is the parsed body),
\* "html" (the body starts with '<') or "junk" (neither, not salvageable)
Body(kind, value) == [kind |-> kind, value |-> value]

Device(deviceSn, alias, sn) == [deviceSn |-> deviceSn, alias |-> alias, sn |-> sn]

DataResponse(net, kind, value) ==
  [net |-> net, setCookie |-> <<>>, body |-> Body(kind, value)]

Failures ==
  { DataResponse(FALSE, "html", EmptyObj), DataResponse(TRUE, "html", EmptyObj),
    DataResponse(TRUE, "junk", EmptyObj) }

DeviceResponses ==
  Failures \cup
  { DataResponse(TRUE, "json", [deviceList |-> <<>>]),
    DataResponse(TRUE, "json", [deviceList |-> <<Device("XYZ123", "", "")>>]) }

DetailResponses ==
  Failures \cup
  { DataResponse(TRUE, "json", [obj |-> [capacity |-> <<"5", "5">>, vbat |-> <<"5", "1", ".", "2">>, vGrid |-> <<"2", "3", "0">>]]) }

EnergyResponses ==
  Failures \cup
  { DataResponse(TRUE, "json", [obj |-> [epvToday |-> <<"7">>, useEnergyToday |-> <<"1", "2", ".", "5">>]]) }

ParamsResponses ==
  Failures \cup
  { DataResponse(TRUE, "json", [obj |-> [storageDetailBean |-> [vBat |-> <<"5", "1", ".", "2">>, vac |-> <<"0">>]]]) }

PlantResponses ==
  Failures \cup
  { DataResponse(TRUE, "json", [back |-> [plantData |-> [plantName |-> "Home"]]]) }

\* JSON.parse on texts of one-character tokens: a and b are string
\* literals, 1 is a number literal, blanks separate tokens.  A parsed value
\* is <<"str", c>>, <<"num", c>>, <<"arr", elements>>, <<"obj", members>>
\* with members a sequence of <<key, value>>, and EmptyObj for {}.
StringTokens == {"a", "b"}

NotBlank(c) == c # " "

ParseFail == [ok |-> FALSE, val |-> <<>>, rest |-> <<>>]

\* obj[key] = value: a key set again keeps its place and takes the value
RECURSIVE PutMember(_, _, _)
PutMember(members, key, value) ==
  IF members = <<>> THEN << <<key, value>> >>
  ELSE IF Head(members)[1] = key THEN << <<key, value>> >> \o Tail(members)
  ELSE <<Head(members)>> \o PutMember(Tail(members), key, value)

RECURSIVE ParseValue(_)
RECURSIVE ParseMembers(_, _)
RECURSIVE ParseElements(_, _)

\* the value a token sequence starts with, and what follows it
ParseValue(s) ==
  IF s = <<>> THEN ParseFail
  ELSE IF Head(s) \in StringTokens
    THEN [ok |-> TRUE, val |-> <<"str", Head(s)>>, rest |-> Tail(s)]
  ELSE IF Head(s) = "1"
    THEN [ok |-> TRUE, val |-> <<"num", Head(s)>>, rest |-> Tail(s)]
  ELSE IF Head(s) = "{"
    THEN IF Len(s) >= 2 /\ s[2] = "}"
           THEN [ok |-> TRUE, val |-> EmptyObj, rest |-> SubSeq(s, 3, Len(s))]
           ELSE ParseMembers(Tail(s), <<>>)
  ELSE IF Head(s) = "["
    THEN IF Len(s) >= 2 /\ s[2] = "]"
           THEN [ok |-> TRUE, val |-> <<"arr", <<>> >>, rest |-> SubSeq(s, 3, Len(s))]
           ELSE ParseElements(Tail(s), <<>>)
  ELSE ParseFail

\* key : value, then a comma and more members or the closing brace
ParseMembers(s, members) ==
  IF Len(s) < 2 \/ s[1] \notin StringTokens \/ s[2] # ":" THEN ParseFail
  ELSE LET v == ParseValue(SubSeq(s, 3, Len(s)))
       IN IF ~v.ok \/ v.rest = <<>> THEN ParseFail
          ELSE IF Head(v.rest) = "}"
            THEN [ok |-> TRUE, val |-> <<"obj", PutMember(members, s[1], v.val)>>,
                  rest |-> Tail(v.rest)]
          ELSE IF Head(v.rest) = ","
            THEN ParseMembers(Tail(v.rest), PutMember(members, s[1], v.val))
          ELSE ParseFail

\* value, then a comma and more elements or the closing bracket
ParseElements(s, elements) ==
  LET v == ParseValue(s)
  IN IF ~v.ok \/ v.rest = <<>> THEN ParseFail
     ELSE IF Head(v.rest) = "]"
       THEN [ok |-> TRUE, val |-> <<"arr", Append(elements, v.val)>>, rest |-> Tail(v.rest)]
     ELSE IF Head(v.rest) = ","
       THEN ParseElements(Tail(v.rest), Append(elements, v.val))
     ELSE ParseFail

\* JSON.parse(text): ok is FALSE where it throws
JSONparse(text) ==
  LET v == ParseValue(SelectSeq(text, NotBlank))
  IN IF v.ok /\ v.rest = <<>> THEN [ok |-> TRUE, val |-> v.val]
     ELSE [ok |-> FALSE, val |-> <<>>]

\* String.prototype.lastIndexOf(c): last position of c, 0 when absent
LastIndexOf(s, c) ==
  IF \E i \in 1..Len(s) : s[i] = c
    THEN CHOOSE i \in 1..Len(s) : s[i] = c /\ \A j \in (i + 1)..Len(s) : s[j] # c
    ELSE 0

\* const endings = ['}', '}}', '}}}', '}}}}', ']}', ']}}']
endings ==
  << <<"}">>, <<"}", "}">>, <<"}", "}", "}">>, <<"}", "}", "}", "}">>,
     <<"]", "}">>, <<"]", "}", "}">> >>

\* for (const ending of endings) try JSON.parse(current + ending), from
\* the k-th ending
RECURSIVE TryEndings(_, _)
TryEndings(current, k) ==
  IF k > Len(endings) THEN [ok |-> FALSE, val |-> <<>>]
  ELSE LET parsed == JSONparse(current \o endings[k])
       IN IF parsed.ok THEN parsed ELSE TryEndings(current, k + 1)

\* a salvage that truncates once
Salvage_OneRound(current, i) ==
  LET commaIdx == LastIndexOf(current, ",")
  IN IF commaIdx = 0 THEN [ok |-> FALSE, val |-> <<>>]
     ELSE TryEndings(SubSeq(current, 1, commaIdx - 1), 1)

\* for (let i = 0; i < 10; i++) ..., from round i (329-343)
RECURSIVE Salvage(_, _)
Salvage(current, i) ==
  IF ~(i < 10) THEN [ok |-> FALSE, val |-> <<>>]
  ELSE LET commaIdx == LastIndexOf(current, ",")
       IN IF commaIdx = 0 THEN [ok |-> FALSE, val |-> <<>>]
          ELSE LET cut == SubSeq(current, 1, commaIdx - 1)
                   parsed == TryEndings(cut, 1)
               IN IF parsed.ok THEN parsed ELSE Salvage(cut, i + 1)

\* text.trim().startsWith('<')
IsHtml(text) == Trim(text) # <<>> /\ Head(Trim(text)) = "<"

\* the body of a response as safeJson reads it (318-343): its kind and the
\* value parsed or salvaged from its text
ReadBody(text) ==
  LET strict == JSONparse(text)
      salvaged == Salvage(text, 0)
  IN IF strict.ok THEN Body("json", strict.val)
     ELSE IF IsHtml(text) THEN Body("html", EmptyObj)
     ELSE IF salvaged.ok THEN Body("json", salvaged.val)
     ELSE Body("junk", EmptyObj)

\* safeJson (317-348): the parsed value, a session_expired error for HTML,
\* and {} for a body that cannot be salvaged
safeJson(body, label) ==
  IF body.kind = "json" THEN [err |-> NoErr, val |-> body.value]
  ELSE IF body.kind = "html" THEN [err |-> SessionExpiredMsg(label), val |-> EmptyObj]
  ELSE [err |-> NoErr, val |-> EmptyObj]

-----------------------------------------------------------------------------
(* Normalisation (679-778).  Numbers are held in tenths.                   *)

\* A value read from a parsed body is held as the text String(v) that
\* parseFloat reads: the digits of a number or of a numeric string, and
\* 'undefined' for a field that is missing.
Undefined == <<"u", "n", "d", "e", "f", "i", "n", "e", "d">>

\* obj.key of a parsed JSON object
Get(obj, key) == IF key \in DOMAIN obj THEN obj[key] ELSE Undefined

\* obj.key || fallback, for a key that holds an object when present
GetObj(obj, key, fallback) == IF key \in DOMAIN obj THEN obj[key] ELSE fallback

Digits == <<"0", "1", "2", "3", "4", "5", "6", "7", "8", "9">>

IsDigit(c) == \E i \in 1..10 : Digits[i] = c

DigitOf(c) == (CHOOSE i \in 1..10 : Digits[i] = c) - 1

\* the length of the run of digits a text starts with
RECURSIVE LeadDigits(_)
LeadDigits(s) == IF s = <<>> \/ ~IsDigit(Head(s)) THEN 0 ELSE 1 + LeadDigits(Tail(s))

\* the number written by the first n characters of a text, all digits
RECURSIVE Decimal(_, _)
Decimal(s, n) == IF n = 0 THEN 0 ELSE 10 * Decimal(s, n - 1) + DigitOf(s[n])

NaN == [nan |-> TRUE, n |-> 0]

\* parseFloat(v): blanks are skipped, then the longest prefix that is a
\* decimal literal (sign, digits, point, digits) is the number and what
\* follows it is ignored; NaN when there is no such prefix.  The number is
\* held in tenths (the texts of the model have at most one digit after the
\* point; exponents and Infinity do not occur in them).
Number(tenths) == [nan |-> FALSE, n |-> tenths]

\* the digits after the point of a text that follows the integer digits
Fraction(rest) == IF rest # <<>> /\ Head(rest) = "." THEN Tail(rest) ELSE <<>>

\* the unsigned literal a text starts with: ni integer digits, then frac
Literal(u, ni, frac) ==
  IF ni = 0 /\ LeadDigits(frac) = 0 THEN NaN
  ELSE Number(10 * Decimal(u, ni) + (IF LeadDigits(frac) > 0 THEN DigitOf(frac[1]) ELSE 0))

Unsigned(u, ni) == Literal(u, ni, Fraction(SubSeq(u, ni + 1, Len(u))))

Negated(p) == IF p.nan THEN NaN ELSE Number(0 - p.n)

Signed(t) ==
  IF t # <<>> /\ Head(t) = "-" THEN Negated(Unsigned(Tail(t), LeadDigits(Tail(t))))
  ELSE IF t # <<>> /\ Head(t) = "+" THEN Unsigned(Tail(t), LeadDigits(Tail(t)))
  ELSE Unsigned(t, LeadDigits(t))

ParseFloat(v) == Signed(TrimLeft(v))

\* pf(...vals): first candidate that parses to a non-zero number, else 0
\* a coalesce that takes the first candidate that parses, zero or not
RECURSIVE pf_FirstParsed(_)
pf_FirstParsed(vals) ==
  IF vals = <<>> THEN 0
  ELSE LET p == ParseFloat(Head(vals))
       IN IF ~p.nan THEN p.n ELSE pf_FirstParsed(Tail(vals))

RECURSIVE pf(_)

\* if (!isNaN(n) && n !== 0) return n (694), else the loop goes on
ReturnOrNext(n, rest) == IF ~n.nan /\ n.n # 0 THEN n.n ELSE pf(rest)

pf(vals) ==
  IF vals = <<>> THEN 0
  ELSE ReturnOrNext(ParseFloat(Head(vals)), Tail(vals))

\* a grid status that takes a voltage that does not parse for 0
isOffGrid_NaNIsZero(bean, sd) ==
  ParseFloat(Get(bean, "vac")).n < 500 /\ ParseFloat(Get(sd, "vGrid")).n > 0

\* x < y and x > y of JavaScript, y in tenths: false when x is NaN
Less(x, y) == ~x.nan /\ x.n < y

Greater(x, y) == ~x.nan /\ x.n > y

\* parseFloat(bean.vac) < 50 && parseFloat(sd.vGrid) > 0 (700): a
\* comparison with NaN is false
isOffGrid(bean, sd) ==
  Less(ParseFloat(Get(bean, "vac")), 500) /\ Greater(ParseFloat(Get(sd, "vGrid")), 0)

\* the dashData object built from the raw sources (683-778), at time t
Normalize(s, storageRaw, t) ==
  LET sd == GetObj(storageRaw.detail, "obj", storageRaw.detail)
      energy == storageRaw.energy
      paramsRoot == GetObj(storageRaw.params, "obj", storageRaw.params)
      bean == GetObj(paramsRoot, "storageDetailBean", EmptyObj)
  IN [ timestamp |-> t,
       plantName |-> s.plantName,
       plantId |-> s.plantId,
       batterySoc |-> pf(<<Get(sd, "capacity"), Get(bean, "capacity")>>),
       batteryVoltage |-> pf(<<Get(sd, "vbat"), Get(bean, "vBat")>>),
       pvTodayEnergy |-> pf(<<Get(sd, "epvToday"), Get(energy, "epvToday")>>),
       loadTodayEnergy |-> pf(<<Get(energy, "useEnergyToday"), Get(energy, "eToUserToday")>>),
       gridVoltage |-> pf(<<Get(sd, "vGrid"), Get(bean, "vGrid")>>),
       gridStatus |-> IF isOffGrid(bean, sd) THEN "off-grid" ELSE "connected",
       inverterSerial |-> s.deviceSn ]

-----------------------------------------------------------------------------
(* Request slots.  A handler works on the world w = [s, jar, q]: the       *)
(* session, the cookie jar and its own locals q.  q.pc names the upstream  *)
(* call the handler is awaiting; q.ctx names the caller that awaits the    *)
(* login in progress; q.attempt counts the invocations of the operation by *)
(* the current withSessionRetry and q.logins the logins started since it   *)
(* began (or since the request arrived).  A slot is free again once its    *)
(* handler has responded; the response (out) and the calls made (trace)    *)
(* are visible in the state after the step.                                *)

\* let storageRaw = { detail: {}, energy: {}, params: {} }.  The error
\* property the catch blocks add to storageRaw and plantDetail is never read
\* by the handler; the message goes to the console, here to the trace.
NoStorage == [detail |-> EmptyObj, energy |-> EmptyObj, params |-> EmptyObj]

Fresh(kind) ==
  [ kind |-> kind, pc |-> "idle", ctx |-> "", attempt |-> 0,
    country |-> "", detail |-> EmptyObj, energy |-> EmptyObj,
    storageRaw |-> NoStorage,
    logins |-> 0 ]

\* let session = { cookies: null, ..., lastData: null, lastFetch: 0 }
EmptySession ==
  [ cookies |-> <<>>, userId |-> "", plantId |-> "", plantName |-> "",
    deviceSn |-> "", lastLogin |-> NullTime, lastData |-> <<>>, lastFetch |-> 0 ]

World(r) == [s |-> session, jar |-> cookieJar, q |-> req[r], out |-> <<>>, trace |-> <<>>]

\* An event of the trace: a call (ensureSession, login, invoke of the
\* operation op by withSessionRetry), what login ended with (login_ok,
\* login_err), the rejection of the n-th invocation of op (rejected), the
\* assignment lastLogin = null of withSessionRetry (clear), and the
\* rejection of withSessionRetry as the handler catches it (caught), and
\* the warning of discoverDevices that neither method listed a device
\* (no_devices).
Event(e, op, msg, n) == [e |-> e, op |-> op, msg |-> msg, n |-> n]

Note(w, e, op, msg) == [w EXCEPT !.trace = Append(@, Event(e, op, msg, w.q.attempt))]

\* growattFetch up to its await (351-367): the request is on the wire
Send(w, pc) == [w EXCEPT !.q.pc = pc]

\* res.json(...): the handler ends; its locals are gone
Respond(w, response) ==
  [w EXCEPT !.q = Fresh("none"),
            !.out = Append(@, [kind |-> w.q.kind, response |-> response])]

OkResponse(cached, body) == [success |-> TRUE, cached |-> cached, error |-> NoErr, body |-> body]
ErrResponse(msg) == [success |-> FALSE, cached |-> FALSE, error |-> msg, body |-> EmptyObj]

RECURSIVE Resume(_, _, _)

-----------------------------------------------------------------------------
(* /api/data: cache store and catch-all (780-792) *)

\* the snapshot stored without a new lastFetch
Finish_NoStamp(w, t) ==
  LET dashData == Normalize(w.s, w.q.storageRaw, t)
      w1 == [w EXCEPT !.s.lastData = <<dashData>>]
  IN Respond(w1, OkResponse(FALSE, dashData))

\* normalise, store, respond (679-783)
Finish(w, t) ==
  LET dashData == Normalize(w.s, w.q.storageRaw, t)
      w1 == [w EXCEPT !.s.lastData = <<dashData>>, !.s.lastFetch = t]
  IN Respond(w1, OkResponse(FALSE, dashData))

\* the catch-all dropping the cached snapshot
DataCatch_DropCache(w, msg) ==
  LET w1 == IF Includes(msg, "Login") \/ Includes(msg, "session")
              THEN [w EXCEPT !.s.lastLogin = NullTime, !.s.lastData = <<>>, !.s.lastFetch = 0]
              ELSE [w EXCEPT !.s.lastData = <<>>, !.s.lastFetch = 0]
  IN Respond(w1, ErrResponse(msg))

\* the catch-all testing the message for "Login" only
DataCatch_LoginOnly(w, msg) ==
  LET w1 == IF Includes(msg, "Login")
              THEN [w EXCEPT !.s.lastLogin = NullTime]
              ELSE w
  IN Respond(w1, ErrResponse(msg))

\* the catch-all of /api/data (785-792)
DataCatch(w, msg) ==
  LET w1 == IF Includes(msg, "Login") \/ Includes(msg, "session")
              THEN [w EXCEPT !.s.lastLogin = NullTime]
              ELSE w
  IN Respond(w1, ErrResponse(msg))

\* /api/connect without its catch: a rejected login ends the handler
ConnectEnd_NoCatch(w, msg) ==
  IF msg = NoErr
    THEN Respond(w, OkResponse(FALSE,
           [plantName |-> w.s.plantName, plantId |-> w.s.plantId, userId |-> w.s.userId,
            country |-> w.q.country, deviceSn |-> w.s.deviceSn]))
    ELSE [w EXCEPT !.q = Fresh("none")]

\* /api/connect after login (639-645)
ConnectEnd(w, msg) ==
  IF msg = NoErr
    THEN Respond(w, OkResponse(FALSE,
           [plantName |-> w.s.plantName, plantId |-> w.s.plantId, userId |-> w.s.userId,
            country |-> w.q.country, deviceSn |-> w.s.deviceSn]))
    ELSE Respond(w, ErrResponse(msg))

-----------------------------------------------------------------------------
(* login (379-489), ensureSession (492-496) *)

LoginThrow(w, t, msg) == Resume(Note(w, "login_err", "", msg), t, msg)
LoginReturn(w, t) == Resume(Note(w, "login_ok", "", NoErr), t, NoErr)

\* login() without the test of the credentials
login_NoCredCheck(w, t, ctx) ==
  LET w0 == Note([w EXCEPT !.q.ctx = ctx, !.q.logins = @ + 1], "login", "", NoErr)
  IN Send([w0 EXCEPT !.s.cookies = <<>>, !.jar = <<>>], "login_wait")

\* login() resetting the cookie header but leaving the jar as it is
login_KeepJar(w, t, ctx) ==
  LET w0 == Note([w EXCEPT !.q.ctx = ctx, !.q.logins = @ + 1], "login", "", NoErr)
  IN IF ~creds THEN LoginThrow(w0, t, ConfigErrMsg)
     ELSE Send([w0 EXCEPT !.s.cookies = <<>>], "login_wait")

\* login() sending its POST without the reset of the cookies and the jar
login_NoReset(w, t, ctx) ==
  LET w0 == Note([w EXCEPT !.q.ctx = ctx, !.q.logins = @ + 1], "login", "", NoErr)
  IN IF ~creds THEN LoginThrow(w0, t, ConfigErrMsg)
     ELSE Send(w0, "login_wait")

\* login() up to the await of the POST (379-418)
login(w, t, ctx) ==
  LET w0 == Note([w EXCEPT !.q.ctx = ctx, !.q.logins = @ + 1], "login", "", NoErr)
  IN IF ~creds THEN LoginThrow(w0, t, ConfigErrMsg)
     ELSE Send([w0 EXCEPT !.s.cookies = <<>>, !.jar = <<>>], "login_wait")

\* login() stamping lastLogin as soon as the POST is answered
loginAnswered_StampEarly(w, t, res) ==
  IF ~res.net THEN LoginThrow(w, t, NetErrMsg)
  ELSE LET w1 == [captureCookies(w, res.setCookie) EXCEPT !.s.lastLogin = t]
       IN IF ~res.json THEN LoginThrow(w1, t, LoginNonJsonMsg)
          ELSE IF ~res.hasBack THEN LoginThrow(w1, t, LoginNoBackMsg)
          ELSE IF ~res.success THEN LoginThrow(w1, t, LoginRejectedMsg)
          ELSE IF res.plants = <<>> THEN LoginThrow(w1, t, NoPlantsMsg)
          ELSE IF ~res.hasUser THEN LoginThrow(w1, t, NoUserMsg)
          ELSE Send([w1 EXCEPT !.s.userId = res.userId,
                               !.s.plantId = res.plants[1].plantId,
                               !.s.plantName = res.plants[1].plantName,
                               !.q.country = res.country], "disc1_wait")

\* login() taking the identifiers from the last plant of the list
loginAnswered_LastPlant(w, t, res) ==
  IF ~res.net THEN LoginThrow(w, t, NetErrMsg)
  ELSE LET w1 == captureCookies(w, res.setCookie)
       IN IF ~res.json THEN LoginThrow(w1, t, LoginNonJsonMsg)
          ELSE IF ~res.hasBack THEN LoginThrow(w1, t, LoginNoBackMsg)
          ELSE IF ~res.success THEN LoginThrow(w1, t, LoginRejectedMsg)
          ELSE IF res.plants = <<>> THEN LoginThrow(w1, t, NoPlantsMsg)
          ELSE IF ~res.hasUser THEN LoginThrow(w1, t, NoUserMsg)
          ELSE Send([w1 EXCEPT !.s.userId = res.userId,
                               !.s.plantId = res.plants[Len(res.plants)].plantId,
                               !.s.plantName = res.plants[Len(res.plants)].plantName,
                               !.s.lastLogin = t,
                               !.q.country = res.country], "disc1_wait")

\* login() from the answer of the POST to the await in discoverDevices (419-522)
loginAnswered(w, t, res) ==
  IF ~res.net THEN LoginThrow(w, t, NetErrMsg)
  ELSE LET w1 == captureCookies(w, res.setCookie)
       IN IF ~res.json THEN LoginThrow(w1, t, LoginNonJsonMsg)
          ELSE IF ~res.hasBack THEN LoginThrow(w1, t, LoginNoBackMsg)
          ELSE IF ~res.success THEN LoginThrow(w1, t, LoginRejectedMsg)
          ELSE IF res.plants = <<>> THEN LoginThrow(w1, t, NoPlantsMsg)
          ELSE IF ~res.hasUser THEN LoginThrow(w1, t, NoUserMsg)
          ELSE Send([w1 EXCEPT !.s.userId = res.userId,
                               !.s.plantId = res.plants[1].plantId,
                               !.s.plantName = res.plants[1].plantName,
                               !.s.lastLogin = t,
                               !.q.country = res.country], "disc1_wait")

\* a selection that prefers the alias to the explicit serial
selectDevice_AliasFirst(w, devices) ==
  LET d == devices[1]
  IN [w EXCEPT !.s.deviceSn =
        IF d.alias # "" THEN d.alias ELSE IF d.deviceSn # "" THEN d.deviceSn ELSE d.sn]

\* devices[0].deviceSn || devices[0].alias || devices[0].sn (540-542)
selectDevice(w, devices) ==
  LET d == devices[1]
  IN [w EXCEPT !.s.deviceSn =
        IF d.deviceSn # "" THEN d.deviceSn ELSE IF d.alias # "" THEN d.alias ELSE d.sn]

\* discoverDevices from the answer of getAllDeviceListTwo (523-556)
discoverFirstAnswered(w, t, res) ==
  IF ~res.net THEN LoginThrow(w, t, NetErrMsg)
  ELSE LET w1 == captureCookies(w, res.setCookie)
           data == safeJson(res.body, "DeviceListTwo")
           devices == GetObj(data.val, "deviceList", <<>>)
       IN IF data.err # NoErr THEN LoginThrow(w1, t, data.err)
          ELSE IF devices = <<>> THEN Send(w1, "disc2_wait")
          ELSE LoginReturn(selectDevice(w1, devices), t)

\* discoverDevices from the answer of getAllDeviceList (534-556)
discoverSecondAnswered(w, t, res) ==
  IF ~res.net THEN LoginThrow(w, t, NetErrMsg)
  ELSE LET w1 == captureCookies(w, res.setCookie)
           data == safeJson(res.body, "DeviceListAll")
           devices == GetObj(data.val, "deviceList", <<>>)
       IN IF data.err # NoErr THEN LoginThrow(w1, t, data.err)
          ELSE IF devices = <<>> THEN LoginReturn(Note(w1, "no_devices", "", NoErr), t)
          ELSE LoginReturn(selectDevice(w1, devices), t)

\* the condition with the session expiring at the TTL instead of after it
SessionInvalid_AtTTL(s, t) ==
  s.cookies = <<>> \/ s.lastLogin = NullTime \/ t - s.lastLogin >= SESSION_TTL

\* the condition of ensureSession (493)
SessionInvalid(s, t) ==
  s.cookies = <<>> \/ s.lastLogin = NullTime \/ t - s.lastLogin > SESSION_TTL

\* ensureSession() joining a login that another request has in flight
ensureSession_SingleFlight(w, t, ctx) ==
  LET w0 == Note(w, "ensureSession", "", NoErr)
  IN IF SessionInvalid(w0.s, t) /\ \A r \in Slots : req[r].pc # "login_wait"
       THEN login(w0, t, ctx)
       ELSE Resume([w0 EXCEPT !.q.ctx = ctx], t, NoErr)

\* ensureSession(), awaited by ctx
ensureSession(w, t, ctx) ==
  LET w0 == Note(w, "ensureSession", "", NoErr)
  IN IF SessionInvalid(w0.s, t) THEN login(w0, t, ctx)
     ELSE Resume([w0 EXCEPT !.q.ctx = ctx], t, NoErr)

-----------------------------------------------------------------------------
(* withSessionRetry (499-511), getStorageData (559-611), getPlantDetail    *)
(* (614-626) and the per-source catch blocks of /api/data (662-677)        *)

RECURSIVE OpThrow(_, _, _, _)

\* getPlantDetail() up to its await (614-620)
getPlantDetail(w, t) ==
  Send(Note([w EXCEPT !.q.attempt = @ + 1], "invoke", "plant", NoErr), "plant_wait")

\* plantDetail = await withSessionRetry(() => getPlantDetail()) (672-673)
PlantWsr(w, t) == getPlantDetail([w EXCEPT !.q.attempt = 0, !.q.logins = 0], t)

\* getStorageData() without the test of session.deviceSn
getStorageData_NoGuard(w, t) ==
  LET w1 == Note([w EXCEPT !.q.attempt = @ + 1, !.q.detail = EmptyObj,
                           !.q.energy = EmptyObj], "invoke", "storage", NoErr)
  IN Send(w1, "detail_wait")

\* getStorageData() up to its first await (559-575)
getStorageData(w, t) ==
  LET w1 == Note([w EXCEPT !.q.attempt = @ + 1, !.q.detail = EmptyObj,
                           !.q.energy = EmptyObj], "invoke", "storage", NoErr)
  IN IF w1.s.deviceSn = "" THEN OpThrow(w1, t, "storage", NoDeviceMsg)
     ELSE Send(w1, "detail_wait")

\* storageRaw = await withSessionRetry(() => getStorageData()) (665-666)
StorageWsr(w, t) == getStorageData([w EXCEPT !.q.attempt = 0, !.q.logins = 0], t)

\* /api/data without its per-source catch blocks: a rejection of
\* withSessionRetry goes to the catch-all
WsrThrow_Propagate(w, t, op, msg) == DataCatch(Note(w, "caught", op, msg), msg)

\* withSessionRetry rejects: the catch blocks of /api/data (667-677)
WsrThrow(w, t, op, msg) ==
  LET w1 == Note(w, "caught", op, msg)
  IN IF op = "storage"
       THEN PlantWsr([w1 EXCEPT !.q.storageRaw = NoStorage,
                                !.q.detail = EmptyObj, !.q.energy = EmptyObj], t)
       ELSE Finish(w1, t)

\* the condition of the catch of withSessionRetry (503)
ShouldRetry(msg) == Includes(msg, "non-JSON") \/ Includes(msg, "session_expired")

\* the retry going through withSessionRetry again: every rejection retries
OpThrow_Always(w, t, op, msg) ==
  LET w0 == Note(w, "rejected", op, msg)
  IN IF ShouldRetry(msg)
       THEN ensureSession(Note([w0 EXCEPT !.s.lastLogin = NullTime], "clear", op, NoErr), t,
                          IF op = "storage" THEN "retry_storage" ELSE "retry_plant")
       ELSE WsrThrow(w0, t, op, msg)

\* the retry without lastLogin = null before ensureSession
OpThrow_NoClear(w, t, op, msg) ==
  LET w0 == Note(w, "rejected", op, msg)
  IN IF w0.q.attempt = 1 /\ ShouldRetry(msg)
       THEN ensureSession(w0, t, IF op = "storage" THEN "retry_storage" ELSE "retry_plant")
       ELSE WsrThrow(w0, t, op, msg)

\* the retry after any error of the first invocation
OpThrow_AnyError(w, t, op, msg) ==
  LET w0 == Note(w, "rejected", op, msg)
  IN IF w0.q.attempt = 1
       THEN ensureSession(Note([w0 EXCEPT !.s.lastLogin = NullTime], "clear", op, NoErr), t,
                          IF op = "storage" THEN "retry_storage" ELSE "retry_plant")
       ELSE WsrThrow(w0, t, op, msg)

\* fn() rejected with msg inside withSessionRetry (502-510): the first
\* invocation is inside the try, the second inside the catch
OpThrow(w, t, op, msg) ==
  LET w0 == Note(w, "rejected", op, msg)
  IN IF w0.q.attempt = 1 /\ ShouldRetry(msg)
       THEN ensureSession(Note([w0 EXCEPT !.s.lastLogin = NullTime], "clear", op, NoErr), t,
                          IF op = "storage" THEN "retry_storage" ELSE "retry_plant")
       ELSE WsrThrow(w0, t, op, msg)

\* getStorageData from the answer of StorageInfo_sacolar (575-586)
detailAnswered(w, t, res) ==
  IF ~res.net THEN Send(w, "energy_wait")
  ELSE LET w1 == captureCookies(w, res.setCookie)
           data == safeJson(res.body, "StorageDetail")
       IN IF Includes(data.err, "session_expired") THEN OpThrow(w1, t, "storage", data.err)
          ELSE Send([w1 EXCEPT !.q.detail = data.val], "energy_wait")

\* getStorageData from the answer of EnergyOverviewData_sacolar (586-597)
energyAnswered(w, t, res) ==
  IF ~res.net THEN Send(w, "params_wait")
  ELSE LET w1 == captureCookies(w, res.setCookie)
           data == safeJson(res.body, "EnergyOverview")
       IN IF Includes(data.err, "session_expired") THEN OpThrow(w1, t, "storage", data.err)
          ELSE Send([w1 EXCEPT !.q.energy = data.val], "params_wait")

\* getStorageData from the answer of StorageParams_sacolar to its return
\* (597-610), then the start of the plant-detail fetch (672-673)
paramsAnswered(w, t, res) ==
  LET done(w1, paramsData) ==
        PlantWsr([w1 EXCEPT !.q.storageRaw =
                              [detail |-> w1.q.detail,
                               energy |-> GetObj(w1.q.energy, "obj", w1.q.energy),
                               params |-> paramsData],
                            !.q.detail = EmptyObj, !.q.energy = EmptyObj], t)
  IN IF ~res.net THEN done(w, EmptyObj)
     ELSE LET w1 == captureCookies(w, res.setCookie)
              data == safeJson(res.body, "StorageParams")
          IN IF Includes(data.err, "session_expired") THEN OpThrow(w1, t, "storage", data.err)
             ELSE done(w1, data.val)

\* getPlantDetail from the answer of PlantDetailAPI (621-625), then the
\* rest of /api/data (679-783)
plantAnswered(w, t, res) ==
  IF ~res.net THEN OpThrow(w, t, "plant", NetErrMsg)
  ELSE LET w1 == captureCookies(w, res.setCookie)
           raw == safeJson(res.body, "PlantDetail")
       IN IF raw.err # NoErr THEN OpThrow(w1, t, "plant", raw.err)
          ELSE Finish(w1, t)

\* the code that awaits login() or ensureSession(): it returned (msg = NoErr)
\* or threw msg
Resume(w, t, msg) ==
  LET w1 == [w EXCEPT !.q.ctx = "", !.q.country = ""]
  IN CASE w.q.ctx = "connect" -> ConnectEnd(w, msg)
       [] w.q.ctx = "ensure" ->
            IF msg # NoErr THEN DataCatch(w1, msg) ELSE StorageWsr(w1, t)
       [] w.q.ctx = "retry_storage" ->
            IF msg # NoErr THEN WsrThrow(w1, t, "storage", msg) ELSE getStorageData(w1, t)
       [] w.q.ctx = "retry_plant" ->
            IF msg # NoErr THEN WsrThrow(w1, t, "plant", msg) ELSE getPlantDetail(w1, t)

\* the cache check with the freshness window taken in seconds
CacheFresh_Seconds(s, t) == s.lastData # <<>> /\ t - s.lastFetch < DATA_CACHE_TTL \div 1000

\* the cache check of /api/data (654)
CacheFresh(s, t) == s.lastData # <<>> /\ t - s.lastFetch < DATA_CACHE_TTL

\* ensureSession placed before the cache check
dataHandler_EnsureFirst(w, t) ==
  IF SessionInvalid(w.s, t) THEN ensureSession(w, t, "ensure")
  ELSE IF CacheFresh(w.s, t) THEN Respond(w, OkResponse(TRUE, w.s.lastData[1]))
  ELSE ensureSession(w, t, "ensure")

\* GET /api/data up to its first await or its response (649-659)
dataHandler(w, t) ==
  IF CacheFresh(w.s, t) THEN Respond(w, OkResponse(TRUE, w.s.lastData[1]))
  ELSE ensureSession(w, t, "ensure")

\* GET /api/connect logging in only when the session is not valid
connectHandler_EnsureSession(w, t) == ensureSession(w, t, "connect")

\* GET /api/connect up to its first await (635-639)
connectHandler(w, t) == login(w, t, "connect")

\* new Date(ms).toISOString(): the text of the instant ms
ToISOString(ms) == <<"ISO", ms>>

\* x ? new Date(x).toISOString() : null (865-866)
IsoOrNull(ms) == IF ms = NullTime THEN <<>> ELSE ToISOString(ms)

\* GET /api/status reporting connected from lastLogin instead of cookies
statusHandler_ByLastLogin(s) ==
  [ connected |-> s.lastLogin # NullTime,
    plantName |-> s.plantName,
    deviceSn |-> s.deviceSn,
    lastLogin |-> IsoOrNull(s.lastLogin),
    lastFetch |-> IsoOrNull(s.lastFetch) ]

\* GET /api/status (860-868): the body of its response
statusHandler(s) ==
  [ connected |-> s.cookies # <<>>,
    plantName |-> s.plantName,
    deviceSn |-> s.deviceSn,
    lastLogin |-> IsoOrNull(s.lastLogin),
    lastFetch |-> IsoOrNull(s.lastFetch) ]

-----------------------------------------------------------------------------
(* The state machine *)

\* the page when its script has run: let refreshInterval = null, no timer
\* set, no request sent.  timers are the intervals set and not cleared,
\* each with the time it fires next; loaded: the load event has fired;
\* connects, statuses and fetches count the requests to /api/connect,
\* /api/status and /api/data that await their answer; fetched: some
\* fetchData() has shown a snapshot; fired: the last step was a timer firing.
PageLoading ==
  [ refreshInterval |-> 0, timers |-> {}, nextId |-> 1, clock |-> 0, ticks |-> 0,
    loaded |-> FALSE, clicks |-> 0, connects |-> 0, statuses |-> 0, fetches |-> 0,
    status |-> "offline", fetched |-> FALSE, fired |-> FALSE ]

\* no call of a function specification
NoCall == [fn |-> "", args |-> <<>>, done |-> FALSE, result |-> <<>>]

\* the arguments of a call that is about to be made
Pending(fn, args) == [fn |-> fn, args |-> args, done |-> FALSE, result |-> <<>>]

\* the process after construction
Boot ==
  /\ session = EmptySession
  /\ cookieJar = <<>>
  /\ now = Epoch
  /\ ticks = 0
  /\ creds \in BOOLEAN
  /\ req = [r \in Slots |-> Fresh("none")]
  /\ started = 0
  /\ out = <<>>
  /\ trace = <<>>
  /\ captured = <<>>
  /\ page = PageLoading
  /\ answered = [r \in Slots |-> 0]

Init == Boot /\ call = NoCall

\* the handler of slot r has run to its next await: the world after it
Commit(r, w) ==
  /\ session' = w.s
  /\ cookieJar' = w.jar
  /\ req' = [req EXCEPT ![r] = w.q]
  /\ out' = w.out
  /\ trace' = w.trace
  /\ UNCHANGED <<now, ticks, creds, captured, call, page, answered>>

InFlight == {r \in Slots : req[r].pc # "idle"}

\* A request arrives and is handled in the first free slot r.  Explored are
\* a burst of up to NumSlots overlapping requests at process start, and
\* after it requests that arrive one at a time, MaxRequests in all.
Arrives(r) ==
  /\ req[r].pc = "idle"
  /\ \A r2 \in 1..(r - 1) : req[r2].pc # "idle"
  /\ started < MaxRequests
  /\ InFlight = {} \/ (ticks = 0 /\ started < NumSlots)
  /\ started' = started + 1

\* a GET /api/connect request arrives
ConnectRequest(r) ==
  /\ Arrives(r)
  /\ Commit(r, connectHandler([World(r) EXCEPT !.q = Fresh("connect")], now))

\* a GET /api/data request arrives
DataRequest(r) ==
  /\ Arrives(r)
  /\ Commit(r, dataHandler([World(r) EXCEPT !.q = Fresh("data")], now))

\* a GET /api/status request arrives: its handler is synchronous and
\* needs no slot
StatusRequest ==
  /\ out' = <<[kind |-> "status", response |-> statusHandler(session)]>>
  /\ trace' = <<>>
  /\ UNCHANGED <<session, cookieJar, now, ticks, creds, req, started, captured, call, page, answered>>

\* the vendor answers the login POST
LoginResponse(r) ==
  /\ req[r].pc = "login_wait"
  /\ UNCHANGED started
  /\ \E res \in LoginResponses : Commit(r, loginAnswered(World(r), now, res))

DeviceListTwoResponse(r) ==
  /\ req[r].pc = "disc1_wait"
  /\ UNCHANGED started
  /\ \E res \in DeviceResponses : Commit(r, discoverFirstAnswered(World(r), now, res))

DeviceListAllResponse(r) ==
  /\ req[r].pc = "disc2_wait"
  /\ UNCHANGED started
  /\ \E res \in DeviceResponses : Commit(r, discoverSecondAnswered(World(r), now, res))

StorageDetailResponse(r) ==
  /\ req[r].pc = "detail_wait"
  /\ UNCHANGED started
  /\ \E res \in DetailResponses : Commit(r, detailAnswered(World(r), now, res))

EnergyOverviewResponse(r) ==
  /\ req[r].pc = "energy_wait"
  /\ UNCHANGED started
  /\ \E res \in EnergyResponses : Commit(r, energyAnswered(World(r), now, res))

StorageParamsResponse(r) ==
  /\ req[r].pc = "params_wait"
  /\ UNCHANGED started
  /\ \E res \in ParamsResponses : Commit(r, paramsAnswered(World(r), now, res))

PlantDetailResponse(r) ==
  /\ req[r].pc = "plant_wait"
  /\ UNCHANGED started
  /\ \E res \in PlantResponses : Commit(r, plantAnswered(World(r), now, res))

\* time passes (explored while at most one request is in flight)
Tick ==
  /\ ticks < MaxTicks
  /\ Cardinality(InFlight) <= 1
  /\ \E d \in TickSteps : now' = now + d
  /\ ticks' = ticks + 1
  /\ out' = <<>>
  /\ trace' = <<>>
  /\ UNCHANGED <<session, cookieJar, creds, req, started, captured, call, page, answered>>

Next ==
  \/ \E r \in Slots : ConnectRequest(r)
  \/ \E r \in Slots : DataRequest(r)
  \/ StatusRequest
  \/ \E r \in Slots : LoginResponse(r)
  \/ \E r \in Slots : DeviceListTwoResponse(r)
  \/ \E r \in Slots : DeviceListAllResponse(r)
  \/ \E r \in Slots : StorageDetailResponse(r)
  \/ \E r \in Slots : EnergyOverviewResponse(r)
  \/ \E r \in Slots : StorageParamsResponse(r)
  \/ \E r \in Slots : PlantDetailResponse(r)
  \/ Tick

Spec == Init /\ [][Next]_vars

-----------------------------------------------------------------------------
(* The cookie specification: captureCookies (289-314) and the reset of     *)
(* login (393-394) applied to sequences of responses with several cookies, *)
(* names set more than once, attributes, blanks and malformed entries.     *)

CookieNames == {<<"a">>, <<"b">>}
CookieValues == {<<"1">>, <<"2">>}

\* a Set-Cookie value as the vendor writes it: bare for the value 1, with
\* blanks and an attribute for any other value
RawCookie(name, value) ==
  IF value = <<"1">> THEN name \o <<"=">> \o value
  ELSE <<" ">> \o name \o <<" ", "=", " ">> \o value \o <<" ", ";", " ", "P", "=", "/">>

\* the Set-Cookie values that name a cookie, and two that name none
WellFormed == {RawCookie(n, v) : n \in CookieNames, v \in CookieValues}
Malformed == {<<"a">>, <<"=", "1">>}
RawCookies == WellFormed \cup Malformed

\* getSetCookie() of a response: up to two Set-Cookie values
SetCookieLists ==
  {<<>>} \cup {<<c>> : c \in RawCookies} \cup {<<c, d>> : c \in RawCookies, d \in RawCookies}

\* a response arrives and captureCookies(res) runs
CaptureResponse ==
  /\ Len(captured) < MaxCaptures
  /\ \E setCookies \in SetCookieLists :
       LET w == captureCookies([s |-> session, jar |-> cookieJar], setCookies)
       IN /\ session' = w.s
          /\ cookieJar' = w.jar
          /\ captured' = Append(captured, setCookies)
  /\ UNCHANGED <<now, ticks, creds, req, started, out, trace, call, page, answered>>

\* login() starts: session.cookies = null; cookieJar.clear()
JarReset ==
  /\ captured # <<>>
  /\ session' = [session EXCEPT !.cookies = <<>>]
  /\ cookieJar' = <<>>
  /\ captured' = <<>>
  /\ UNCHANGED <<now, ticks, creds, req, started, out, trace, call, page, answered>>

NextJar == CaptureResponse \/ JarReset

SpecJar == Init /\ [][NextJar]_vars

-----------------------------------------------------------------------------
(* The numeric coalesce specification: pf (690-697) applied to lists of    *)
(* candidates as the parsed bodies hold them.                              *)

\* candidates: 0, '', '12.5', '7', a missing field, a word, a negative
\* number, a number after a blank and before a unit, and zero written 0.0
Candidates ==
  { <<"0">>, <<>>, <<"1", "2", ".", "5">>, <<"7">>, Undefined, <<"a">>,
    <<"-", "3">>, <<" ", "4", "V">>, <<"0", ".", "0">> }

\* the lists of n candidates
RECURSIVE CandidateLists(_)
CandidateLists(n) ==
  IF n = 0 THEN {<<>>}
  ELSE {Append(l, c) : l \in CandidateLists(n - 1), c \in Candidates}

InitPf ==
  /\ Boot
  /\ \E n \in 0..MaxCandidates : call \in {Pending("pf", vals) : vals \in CandidateLists(n)}

\* pf(...vals) is called
pfCall ==
  /\ call.fn = "pf" /\ ~call.done
  /\ call' = [call EXCEPT !.done = TRUE, !.result = pf(call.args)]
  /\ UNCHANGED <<server, captured, page, answered>>

SpecPf == InitPf /\ [][pfCall]_vars

-----------------------------------------------------------------------------
(* The credential hash specification: growattHash (274-284).  The MD5      *)
(* digest comes from the crypto library; any hex text can be the digest of *)
(* the configured password, and it is the same at every call.  Positions   *)
(* are counted from 0 as in the program: hash[i] is the TLA+ element i+1.  *)

\* hash[i]
CharAt(hash, i) == hash[i + 1]

\* hash.substring(0, i) + c + hash.substring(i + 1)
ReplaceAt(hash, i, c) == [hash EXCEPT ![i + 1] = c]

\* a hash that replaces the '0' at every position
RECURSIVE growattHash_EveryIndex(_, _)
growattHash_EveryIndex(hash, i) ==
  IF ~(i < Len(hash)) THEN hash
  ELSE growattHash_EveryIndex(IF CharAt(hash, i) = "0" THEN ReplaceAt(hash, i, "c") ELSE hash, i + 1)

\* for (let i = 0; i < hash.length; i += 2) ..., from the round of index i
RECURSIVE growattHashLoop(_, _)
growattHashLoop(hash, i) ==
  IF ~(i < Len(hash)) THEN hash
  ELSE growattHashLoop(IF CharAt(hash, i) = "0" THEN ReplaceAt(hash, i, "c") ELSE hash, i + 2)

\* growattHash(password), given the digest rawMd5 of the password
growattHash(rawMd5) == growattHashLoop(rawMd5, 0)

\* hex digits that occur in the digests explored
HexDigits == {"0", "c", "9", "f"}

\* the digest('hex') values explored
RECURSIVE HexTexts(_)
HexTexts(n) ==
  IF n = 0 THEN {<<>>} ELSE {Append(h, c) : h \in HexTexts(n - 1), c \in HexDigits}

InitHash ==
  /\ Boot
  /\ call \in {Pending("growattHash", rawMd5) : rawMd5 \in HexTexts(HexLen)}

\* growattHash(password) is called: the results are kept in call order
growattHashCall ==
  /\ call.fn = "growattHash" /\ Len(call.result) < MaxHashCalls
  /\ call' = [call EXCEPT !.done = TRUE, !.result = Append(@, growattHash(call.args))]
  /\ UNCHANGED <<server, captured, page, answered>>

SpecHash == InitHash /\ [][growattHashCall]_vars

-----------------------------------------------------------------------------
(* The device discovery specification: discoverDevices (514-556) from the  *)
(* moment login awaits the first listing, with listings of several         *)
(* devices whose serial is in any of the three fields.  call.args keeps    *)
(* the answers given, in order.                                            *)

\* the answer of a login that succeeds
GoodLogin == CHOOSE res \in LoginResponses : res.success /\ res.hasUser /\ res.plants # <<>>

\* device entries: each of deviceSn, alias and sn present or not
Devices == {Device(d, a, n) : d \in {"", "D1"}, a \in {"", "A1"}, n \in {"", "S1"}}

RECURSIVE DeviceLists(_)
DeviceLists(n) ==
  IF n = 0 THEN {<<>>}
  ELSE DeviceLists(n - 1) \cup
       {Append(l, d) : l \in {k \in DeviceLists(n - 1) : Len(k) = n - 1}, d \in Devices}

\* what a listing endpoint may answer: a failure, a body without
\* deviceList, or a deviceList of up to MaxDevices devices
ListingAnswers ==
  Failures \cup {DataResponse(TRUE, "json", [result |-> 1])}
           \cup {DataResponse(TRUE, "json", [deviceList |-> l]) : l \in DeviceLists(MaxDevices)}

\* GET /api/connect has arrived, its login POST was answered with success
\* and login awaits the first listing
InitDiscover ==
  LET w0 == connectHandler([s |-> EmptySession, jar |-> <<>>, q |-> Fresh("connect"),
                            out |-> <<>>, trace |-> <<>>], Epoch)
      w1 == loginAnswered(w0, Epoch, GoodLogin)
  IN /\ creds = TRUE
     /\ now = Epoch /\ ticks = 0 /\ started = 1
     /\ session = w1.s
     /\ cookieJar = w1.jar
     /\ req = [r \in Slots |-> IF r = 1 THEN w1.q ELSE Fresh("none")]
     /\ out = <<>> /\ trace = <<>>
     /\ captured = <<>> /\ page = PageLoading /\ answered = [r \in Slots |-> 0]
     /\ call = Pending("discoverDevices", <<>>)

\* the handler of slot 1 has run on the answer res
Answered(w, res) ==
  /\ session' = w.s
  /\ cookieJar' = w.jar
  /\ req' = [req EXCEPT ![1] = w.q]
  /\ out' = w.out
  /\ trace' = w.trace
  /\ call' = [call EXCEPT !.args = Append(@, res), !.done = w.q.pc = "idle"]
  /\ UNCHANGED <<now, ticks, creds, started, captured, page, answered>>

\* getAllDeviceListTwo is answered
ListTwoAnswered ==
  /\ req[1].pc = "disc1_wait"
  /\ \E res \in ListingAnswers : Answered(discoverFirstAnswered(World(1), now, res), res)

\* getAllDeviceList is answered
ListAllAnswered ==
  /\ req[1].pc = "disc2_wait"
  /\ \E res \in ListingAnswers : Answered(discoverSecondAnswered(World(1), now, res), res)

NextDiscover == ListTwoAnswered \/ ListAllAnswered

SpecDiscover == InitDiscover /\ [][NextDiscover]_vars

-----------------------------------------------------------------------------
(* The tolerant parsing specification: safeJson (317-348) applied to the   *)
(* text of a body.                                                         *)

Alphabet == {"{", "}", "[", "]", ",", ":", "a", "b", "1", "<", " "}

\* every text of n characters
RECURSIVE Texts(_)
Texts(n) == IF n = 0 THEN {<<>>} ELSE {Append(t, c) : t \in Texts(n - 1), c \in Alphabet}

\* the document {a:1,b:[1,1],a:{a:1,b:1}}
Document ==
  <<"{", "a", ":", "1", ",", "b", ":", "[", "1", ",", "1", "]", ",",
    "a", ":", "{", "a", ":", "1", ",", "b", ":", "1", "}", "}">>

\* n commas
RECURSIVE Commas(_)
Commas(n) == IF n = 0 THEN <<>> ELSE <<",">> \o Commas(n - 1)

\* the bodies explored: every short text, the document cut at any length,
\* an object followed by up to 12 commas, and pages of HTML with commas
BodyTexts ==
  UNION {Texts(n) : n \in 0..MaxTextLen}
    \cup {SubSeq(Document, 1, n) : n \in 0..Len(Document)}
    \cup {<<"{", "a", ":", "1">> \o Commas(n) : n \in 0..12}
    \cup {<<"<", "a", ",", "b">>, <<" ", " ", "<", "a", ",", "b">>,
          <<"{", "<", "a", ",", "b">>}

InitJson ==
  /\ Boot
  /\ call \in {Pending("safeJson", text) : text \in BodyTexts}

\* safeJson(res, 'StorageDetail') is called on a response with the body call.args
safeJsonCall ==
  /\ call.fn = "safeJson" /\ ~call.done
  /\ call' = [call EXCEPT !.done = TRUE, !.result = safeJson(ReadBody(call.args), "StorageDetail")]
  /\ UNCHANGED <<server, captured, page, answered>>

SpecJson == InitJson /\ [][safeJsonCall]_vars

-----------------------------------------------------------------------------
(* The normaliser specification: the dashData of /api/data (679-778) built *)
(* from raw sources with any AC voltage and grid voltage, each source      *)
(* answered, answered without its envelope, or failed ({}).                *)

Missing == <<"missing">>

\* the texts of bean.vac and of sd.vGrid explored: 0, 49.9, 50, 230, -3, 0.1
\* and a word; Missing: the field is absent
Voltages ==
  { <<"0">>, <<"4", "9", ".", "9">>, <<"5", "0">>, <<"2", "3", "0">>, <<"-", "3">>,
    <<"0", ".", "1">>, <<"a">> }

\* storageRaw.detail: the answer of getStorageInfo_sacolar with vGrid = g,
\* inside its obj envelope or bare; {} when the source failed
DetailSources(g) ==
  LET sd == IF g = Missing THEN [vbat |-> <<"5", "1", ".", "2">>]
            ELSE [vbat |-> <<"5", "1", ".", "2">>, vGrid |-> g]
  IN {[obj |-> sd], sd} \cup (IF g = Missing THEN {EmptyObj} ELSE {})

\* storageRaw.params: the answer of getStorageParams_sacolar with vac = v
ParamsSources(v) ==
  LET bean == IF v = Missing THEN [vBat |-> <<"5", "1", ".", "2">>]
              ELSE [vBat |-> <<"5", "1", ".", "2">>, vac |-> v]
  IN {[obj |-> [storageDetailBean |-> bean]], [storageDetailBean |-> bean]}
       \cup (IF v = Missing THEN {EmptyObj, [obj |-> [storageType |-> "SPF"]]} ELSE {})

InitNormalize ==
  /\ Boot
  /\ \E v \in Voltages \cup {Missing}, g \in Voltages \cup {Missing} :
       \E params \in ParamsSources(v), detail \in DetailSources(g) :
         call = Pending("Normalize",
                  [vac |-> v, vGrid |-> g,
                   storageRaw |-> [detail |-> detail, energy |-> EmptyObj, params |-> params]])

\* the handler builds dashData from storageRaw
NormalizeCall ==
  /\ call.fn = "Normalize" /\ ~call.done
  /\ call' = [call EXCEPT !.done = TRUE,
                          !.result = Normalize(session, call.args.storageRaw, now)]
  /\ UNCHANGED <<server, captured, page, answered>>

SpecNormalize == InitNormalize /\ [][NormalizeCall]_vars

-----------------------------------------------------------------------------
(* The page specification: connect (6-38), fetchData (41-59),              *)
(* startAutoRefresh (184-187) and the load handler (190-207) of the        *)
(* dashboard page.  The server is whatever answers: each answer is drawn   *)
(* from the outcomes the page distinguishes.  A step is a run of page      *)
(* script from an event (load, click, answer, timer) to its next await.    *)

\* what a fetch(...) and res.json() of the page can end with: a body with
\* the flag the page tests set, a body with it unset, and a rejection
Answers == {"yes", "no", "throw"}

\* startAutoRefresh() that sets a new interval and clears none
startAutoRefresh_NoClear(p) ==
  [p EXCEPT !.timers = @ \cup {[id |-> p.nextId, due |-> p.clock + REFRESH_MS]},
            !.refreshInterval = p.nextId,
            !.nextId = @ + 1]

\* startAutoRefresh() (184-187)
startAutoRefresh(p) ==
  LET kept == IF p.refreshInterval # 0
                THEN {tm \in p.timers : tm.id # p.refreshInterval}
                ELSE p.timers
  IN [p EXCEPT !.timers = kept \cup {[id |-> p.nextId, due |-> p.clock + REFRESH_MS]},
               !.refreshInterval = p.nextId,
               !.nextId = @ + 1]

\* fetchData() up to its await (41-43)
fetchData(p) == [p EXCEPT !.fetches = @ + 1]

\* setStatus('online'); fetchData(); startAutoRefresh() (28-30, 200-202)
ShowDashboard(p) == startAutoRefresh(fetchData([p EXCEPT !.status = "online"]))

Quiet(p) == [p EXCEPT !.fired = FALSE]

PageStep(p) ==
  /\ page' = p
  /\ UNCHANGED <<server, captured, call, answered>>

\* the load event fires: fetch('/api/status') is sent (190-192)
Load ==
  /\ ~page.loaded
  /\ PageStep([Quiet(page) EXCEPT !.loaded = TRUE, !.statuses = 1])

\* /api/status is answered (192-207)
StatusAnswered ==
  /\ page.statuses > 0
  /\ \E a \in Answers :
       LET p == [Quiet(page) EXCEPT !.statuses = @ - 1]
       IN PageStep(IF a = "yes" THEN ShowDashboard(p) ELSE p)

\* connect() is called and sends fetch('/api/connect') (6-14)
Connect ==
  /\ page.clicks < MaxConnects
  /\ PageStep([Quiet(page) EXCEPT !.clicks = @ + 1, !.connects = @ + 1])

\* /api/connect is answered (14-37)
ConnectAnswered ==
  /\ page.connects > 0
  /\ \E a \in Answers :
       LET p == [Quiet(page) EXCEPT !.connects = @ - 1]
       IN PageStep(IF a = "yes" THEN ShowDashboard(p) ELSE p)

\* /api/data is answered to a fetchData() (43-58)
DataAnswered ==
  /\ page.fetches > 0
  /\ \E a \in Answers :
       LET p == [Quiet(page) EXCEPT !.fetches = @ - 1]
       IN PageStep(IF a = "yes" THEN [p EXCEPT !.status = "online", !.fetched = TRUE]
                   ELSE [p EXCEPT !.status = "error"])

\* an interval set by setInterval(fetchData, REFRESH_MS) fires
TimerFires ==
  \E tm \in page.timers :
    /\ tm.due = page.clock
    /\ PageStep([fetchData(page) EXCEPT
                   !.timers = (@ \ {tm}) \cup {[tm EXCEPT !.due = @ + REFRESH_MS]},
                   !.fired = TRUE])

\* time passes on the page, up to the next firing of an interval
PageTick ==
  /\ page.ticks < MaxPageTicks
  /\ \E d \in {REFRESH_MS \div 2, REFRESH_MS} :
       /\ \A tm \in page.timers : page.clock + d <= tm.due
       /\ PageStep([Quiet(page) EXCEPT !.clock = @ + d, !.ticks = @ + 1])

NextPage ==
  \/ Load
  \/ StatusAnswered
  \/ Connect
  \/ ConnectAnswered
  \/ DataAnswered
  \/ TimerFires
  \/ PageTick

SpecPage == Init /\ [][NextPage]_vars

-----------------------------------------------------------------------------
(* The termination specification: a GET /api/data request, handled in slot *)
(* Observed, and other requests that arrive before it, while it is being   *)
(* handled and after it; every upstream call is answered or fails in the   *)
(* end.  call.result keeps the upstream calls sent and the logins started  *)
(* by the request of slot Observed.                                        *)

Observed == CHOOSE r \in Slots : \A o \in Slots : r <= o
Others == Slots \ {Observed}

\* what the upstream call a handler awaits may be answered with
AnswersOf(pc) ==
  CASE pc = "login_wait" -> LoginResponses
    [] pc \in {"disc1_wait", "disc2_wait"} -> DeviceResponses
    [] pc = "detail_wait" -> DetailResponses
    [] pc = "energy_wait" -> EnergyResponses
    [] pc = "params_wait" -> ParamsResponses
    [] pc = "plant_wait" -> PlantResponses
    [] OTHER -> {}

\* the handler goes on from the await it is at with the answer res
upstreamAnswered(w, t, res) ==
  CASE w.q.pc = "login_wait" -> loginAnswered(w, t, res)
    [] w.q.pc = "disc1_wait" -> discoverFirstAnswered(w, t, res)
    [] w.q.pc = "disc2_wait" -> discoverSecondAnswered(w, t, res)
    [] w.q.pc = "detail_wait" -> detailAnswered(w, t, res)
    [] w.q.pc = "energy_wait" -> energyAnswered(w, t, res)
    [] w.q.pc = "params_wait" -> paramsAnswered(w, t, res)
    [] w.q.pc = "plant_wait" -> plantAnswered(w, t, res)

\* what a GET /api/data request calls login from: its initial
\* ensureSession, or the session retry around one of its two fetches
Origins == {"ensure", "storage", "plant"}

\* the origin of the login that is event i of a trace: withSessionRetry
\* clears lastLogin and calls ensureSession right before it (505-506)
Origin(tr, i) == IF i > 2 /\ tr[i - 2].e = "clear" THEN tr[i - 2].op ELSE "ensure"

NoTally == [calls |-> 0, logins |-> [o \in Origins |-> 0]]

\* a step of a handler sends one upstream call when it ends at an await,
\* and starts as many logins as its trace has login events
Tally(before, w) ==
  [ calls |-> before.calls + (IF w.q.pc # "idle" THEN 1 ELSE 0),
    logins |-> [o \in Origins |->
                  before.logins[o] +
                  Cardinality({i \in 1..Len(w.trace) :
                                 w.trace[i].e = "login" /\ Origin(w.trace, i) = o})] ]

InitLive ==
  /\ Boot
  /\ call = [fn |-> "GET /api/data", args |-> <<>>, done |-> FALSE, result |-> NoTally]

\* the handler of slot r has run to its next await or to its response
Ran(r, w) ==
  /\ session' = w.s
  /\ cookieJar' = w.jar
  /\ req' = [req EXCEPT ![r] = w.q]
  /\ out' = w.out
  /\ trace' = w.trace
  /\ UNCHANGED <<now, ticks, creds, captured, page>>

\* the observed GET /api/data request arrives
DataArrives ==
  /\ req[Observed].pc = "idle" /\ ~call.done /\ call.result = NoTally
  /\ \A r \in Others : req[r].kind # "data"
  /\ \E w \in {dataHandler([World(Observed) EXCEPT !.q = Fresh("data")], now)} :
       /\ Ran(Observed, w)
       /\ call' = [call EXCEPT !.done = w.q.pc = "idle", !.result = Tally(NoTally, w)]
  /\ UNCHANGED <<started, answered>>

\* another request arrives: GET /api/connect at any time, GET /api/data
\* before the observed request
OtherArrives(r) ==
  /\ r \in Others /\ req[r].pc = "idle"
  /\ started < MaxLiveRequests
  /\ started' = started + 1
  /\ answered' = [answered EXCEPT ![r] = 0]
  /\ \/ Ran(r, connectHandler([World(r) EXCEPT !.q = Fresh("connect")], now))
     \/ /\ req[Observed].pc = "idle" /\ call.result = NoTally
        /\ Ran(r, dataHandler([World(r) EXCEPT !.q = Fresh("data")], now))
  /\ UNCHANGED call

\* the upstream call the handler of slot r awaits has returned or failed
Returns(r) ==
  /\ req[r].pc # "idle"
  /\ call.result.calls < MaxCalls
  /\ answered' = [answered EXCEPT ![r] = @ + 1]

\* the upstream call the handler of slot r awaits returns or fails, and the
\* handler goes on
UpstreamResponse(r) ==
  /\ Returns(r)
  /\ UNCHANGED started
  /\ \E res \in AnswersOf(req[r].pc) :
       \E w \in {upstreamAnswered(World(r), now, res)} :
         /\ Ran(r, w)
         /\ call' = IF r = Observed
                      THEN [call EXCEPT !.done = w.q.pc = "idle", !.result = Tally(@, w)]
                      ELSE call

NextLive ==
  \/ DataArrives
  \/ \E r \in Slots : OtherArrives(r)
  \/ \E r \in Slots : UpstreamResponse(r)

\* every upstream call eventually returns or fails: a handler that awaits
\* an upstream call is resumed in the end
SpecLive ==
  InitLive /\ [][NextLive]_vars /\ \A r \in Slots : WF_answered(Returns(r))

-----------------------------------------------------------------------------
(* Refresh-order specification: overlapping GET /api/data requests, with   *)
(* the order in which the answers of the storage fetches are received.     *)
(* call.result counts the storage answers received so far (clock), keeps   *)
(* for each slot the count at the first and at the last answer that the    *)
(* running invocation of getStorageData took into its locals, and the two  *)
(* counts of the request that stored the cached snapshot (0: none).        *)

MaxRefreshes == 3

\* the handler is awaiting the answer of one of the three storage sources
StorageWaits == {"detail_wait", "energy_wait", "params_wait"}

NoReceipt == [first |-> 0, last |-> 0]

NoReceipts ==
  [clock |-> 0, taken |-> [r \in Slots |-> NoReceipt], cached |-> NoReceipt]

\* the receipts after the answer res made the handler of slot r run to w:
\* getStorageData starts with empty locals (571-573), an answer that is
\* fetched and not rejected goes into them (575-606), and the store takes
\* storageRaw as it is (779-781)
Received(h, r, res, w) ==
  [ clock |-> h.clock + (IF req[r].pc \in StorageWaits THEN 1 ELSE 0),
    taken |-> [h.taken EXCEPT ![r] =
                 IF w.q.pc = "idle" \/ \E i \in 1..Len(w.trace) :
                                         w.trace[i].e = "invoke" /\ w.trace[i].op = "storage"
                   THEN NoReceipt
                 ELSE IF req[r].pc \in StorageWaits /\ res.net
                   THEN [first |-> IF @.first = 0 THEN h.clock + 1 ELSE @.first,
                         last |-> h.clock + 1]
                 ELSE @],
    cached |-> IF w.out # <<>> /\ w.out[1].response.success
                 THEN IF req[r].storageRaw = NoStorage THEN NoReceipt ELSE h.taken[r]
                 ELSE h.cached ]

\* the answers of this specification: the upstream is up, so that a call
\* fails in transit or is answered with JSON, never with a login page
RefreshAnswers(pc) ==
  {res \in AnswersOf(pc) : pc # "login_wait" => ~res.net \/ res.body.kind = "json"}

InitRefresh ==
  /\ Boot
  /\ call = [fn |-> "GET /api/data", args |-> <<>>, done |-> FALSE, result |-> NoReceipts]

\* GET /api/data arrives: a first request, then others while a request is
\* fetching its data
RefreshArrives(r) ==
  /\ req[r].pc = "idle"
  /\ started < MaxRefreshes
  /\ IF started = 0 THEN r = Observed
      ELSE \E o \in Slots : req[o].pc \in StorageWaits \cup {"plant_wait"}
  /\ started' = started + 1
  /\ \E w \in {dataHandler([World(r) EXCEPT !.q = Fresh("data")], now)} : Ran(r, w)
  /\ UNCHANGED <<call, answered>>

\* the upstream call the handler of slot r awaits returns or fails, and the
\* handler goes on
RefreshResponse(r) ==
  /\ req[r].pc # "idle"
  /\ \E res \in RefreshAnswers(req[r].pc) :
       \E w \in {upstreamAnswered(World(r), now, res)} :
         /\ Ran(r, w)
         /\ call' = [call EXCEPT !.result = Received(@, r, res, w)]
  /\ UNCHANGED <<started, answered>>

NextRefresh ==
  \/ \E r \in Slots : RefreshArrives(r)
  \/ \E r \in Slots : RefreshResponse(r)

SpecRefresh == InitRefresh /\ [][NextRefresh]_vars

-----------------------------------------------------------------------------
(* Properties.  A step is observed through the state before it, the state  *)
(* after it, the response it sent (out) and the calls it made (trace).     *)

\* the last step answered a request of this kind
Sent(kind) == out # <<>> /\ out[1].kind = kind

\* the last step answered GET /api/data with a newly fetched snapshot
Fetched == Sent("data") /\ out[1].response.success /\ ~out[1].response.cached

\* the last step answered GET /api/data from the cache
Hit == Sent("data") /\ out[1].response.success /\ out[1].response.cached

\* the last step answered GET /api/data with success:false
Failed == Sent("data") /\ ~out[1].response.success

\* a snapshot exists and its age is under 60 seconds
SnapshotFresh == session.lastData # <<>> /\ now - session.lastFetch < 60 * 1000

\* the handler of slot r, in flight before the step, runs in the step
Continues(r) == req[r].pc # "idle" /\ req'[r] # req[r]

\* a step of a GET /api/data request handled in slot r
DataStep(r) == DataRequest(r) \/ (req[r].kind = "data" /\ Continues(r))

\* a step of a GET /api/data request that did not find a fresh snapshot
MissStep(r) ==
  \/ DataRequest(r) /\ ~SnapshotFresh
  \/ req[r].kind = "data" /\ Continues(r)

Has(tr, e) == \E i \in 1..Len(tr) : tr[i].e = e

Count(tr, e) == Cardinality({i \in 1..Len(tr) : tr[i].e = e})

\* the names of the events i..j of a trace (short if the trace ends before j)
Names(tr, i, j) == [k \in 1..((IF j <= Len(tr) THEN j ELSE Len(tr)) - i + 1) |-> tr[i + k - 1].e]

Identifiers(s) == <<s.userId, s.plantId, s.plantName, s.deviceSn>>

\* C1: in every reachable state of the shared session, lastLogin non-null
\* implies cookies non-null.  (Violated: login() clears the cookies before
\* its POST and leaves lastLogin as it is.)
C1_LastLoginImpliesCookies ==
  session.lastLogin # NullTime => session.cookies # <<>>

\* C2: a GET /api/data request that arrives while a snapshot exists whose
\* age is under 60 seconds is answered success:true, cached:true with
\* exactly the stored snapshot; and right after a successful fetch the
\* snapshot is fresh, so that a request arriving then is such a cache hit.
C2_CacheHit ==
  [][ /\ \A r \in Slots :
           DataRequest(r) /\ SnapshotFresh =>
             out' = <<[kind |-> "data", response |-> OkResponse(TRUE, session.lastData[1])]>>
      /\ Fetched' =>
           /\ SnapshotFresh'
           /\ session'.lastData = <<out'[1].response.body>> ]_vars

\* a cache hit on a snapshot that is half a freshness window old
C2_Witness == Hit /\ now - session.lastFetch = ShortStep /\ out[1].response.body = session.lastData[1]

\* the initial ensureSession of /api/data (659) rejects in this step of slot r
EnsureFails(r) ==
  /\ DataRequest(r) \/ req[r].ctx = "ensure"
  /\ Has(trace', "login_err")

\* the initial ensureSession of /api/data (659) returns in this step of slot r
EnsureReturns(r) ==
  \/ DataRequest(r) /\ trace' # <<>> /\ ~Has(trace', "login")
  \/ req[r].ctx = "ensure" /\ Has(trace', "login_ok")

\* C3 as stated: every GET /api/data request that arrives without a fresh
\* snapshot runs the pipeline, stores the new snapshot with a fresh
\* lastFetch and returns it marked cached:false: whenever such a request is
\* answered, it is answered with a snapshot just stored.  (Violated: when
\* the initial ensureSession rejects, the answer is success:false.)
C3_EveryMissStores ==
  [][ \A r \in Slots :
        MissStep(r) /\ out' # <<>> =>
          /\ Fetched'
          /\ session'.lastData = <<out'[1].response.body>>
          /\ session'.lastFetch = now' ]_vars

\* C3, amended: a GET /api/data request that arrives without a fresh
\* snapshot first calls ensureSession; once that returns it fetches the
\* sources, and its answer is then the new snapshot, built at the time of
\* the answer, stored with lastFetch set to that time and marked
\* cached:false; only when the initial ensureSession rejects is the answer
\* success:false, with nothing stored.
C3_MissStoresUnlessEnsureFails ==
  [][ \A r \in Slots :
        MissStep(r) =>
          /\ DataRequest(r) => trace' # <<>> /\ trace'[1].e = "ensureSession"
          /\ EnsureReturns(r) => Has(trace', "invoke")
          /\ out' # <<>> =>
               IF EnsureFails(r)
                 THEN Failed' /\ session'.lastData = session.lastData
                              /\ session'.lastFetch = session.lastFetch
                 ELSE /\ Fetched'
                      /\ out'[1].response.body.timestamp = now'
                      /\ session'.lastData = <<out'[1].response.body>>
                      /\ session'.lastFetch = now' ]_vars

\* a stale snapshot has just been replaced by a new one
C3_Witness ==
  Fetched /\ ticks > 0 /\ session.lastFetch = now /\ session.lastData = <<out[1].response.body>>

\* C4: a GET /api/data request served from a fresh cache issues no upstream
\* call (the handler makes no call and awaits nothing) and leaves the whole
\* session (cookies, lastLogin, identifiers, lastData, lastFetch) and the
\* cookie jar unchanged, whatever the state of the session.
C4_CacheHitFrame ==
  [][ \A r \in Slots :
        DataRequest(r) /\ SnapshotFresh =>
          /\ session' = session
          /\ cookieJar' = cookieJar
          /\ req' = req
          /\ trace' = <<>> ]_vars

\* a cache hit while the session has no cookies and no login time
C4_Witness == Hit /\ session.lastLogin = NullTime /\ session.cookies = <<>>

\* C5: a step of a GET /api/data request that does not end in a successful
\* fetch leaves lastData and lastFetch as they were; and when the request
\* fails, the answer is success:false with the message of the error.
C5_FailureKeepsCache ==
  [][ \A r \in Slots :
        DataStep(r) =>
          /\ ~Fetched' => /\ session'.lastData = session.lastData
                          /\ session'.lastFetch = session.lastFetch
          /\ Failed' => /\ trace'[Len(trace')].e = "login_err"
                        /\ trace'[Len(trace')].msg # NoErr
                        /\ out'[1].response = ErrResponse(trace'[Len(trace')].msg) ]_vars

\* a request failed while an earlier snapshot was stored
C5_Witness == Failed /\ session.lastData # <<>> /\ session.lastFetch # NullTime

\* C6: when a GET /api/data request fails with a message that contains
\* "Login" or "session", the failing step sets lastLogin to null and keeps
\* userId, plantId, plantName and deviceSn; and a GET /api/data request that
\* misses the cache while lastLogin is null calls login before it invokes
\* any data fetch.
C6_FailureForcesLogin ==
  [][ \A r \in Slots :
        /\ DataStep(r) /\ Failed'
             /\ (Includes(out'[1].response.error, "Login")
                   \/ Includes(out'[1].response.error, "session")) =>
               /\ session'.lastLogin = NullTime
               /\ Identifiers(session') = Identifiers(session)
        /\ DataRequest(r) /\ ~SnapshotFresh /\ session.lastLogin = NullTime =>
               /\ Names(trace', 1, 2) = <<"ensureSession", "login">>
               /\ Count(trace', "login") = 1
               /\ creds => req'[r].pc = "login_wait" /\ ~Has(trace', "invoke") ]_vars

\* a request failed on an expired session after login had set identifiers
C6_Witness ==
  /\ Failed /\ Includes(out[1].response.error, "session")
  /\ session.lastLogin = NullTime
  /\ session.plantId # "" /\ session.userId # ""

\* a step of the handler of slot r, from an arrival or from an upstream answer
StepOf(r) == ConnectRequest(r) \/ DataRequest(r) \/ Continues(r)

\* the position of the call of ensureSession in a trace (0 if there is none)
EnsureAt(tr) ==
  IF Has(tr, "ensureSession") THEN CHOOSE i \in 1..Len(tr) : tr[i].e = "ensureSession" ELSE 0

\* ensureSession is called in the step straight from the state before it:
\* by /api/data on arrival (659), nothing of the session touched before it
CalledOnArrival(r) == DataRequest(r) /\ ~SnapshotFresh

\* C7: ensureSession calls login exactly once, as the first thing it does,
\* if cookies are absent or lastLogin is null or now - lastLogin is over
\* 30 minutes (lastLogin is null when withSessionRetry calls it); in every
\* other state, an age of exactly 30 minutes included, it calls no login,
\* sends nothing upstream and leaves the session and the cookie jar
\* unchanged: its caller goes on to the first data fetch.
C7_EnsureSession ==
  [][ \A r \in Slots :
        StepOf(r) /\ Has(trace', "ensureSession") =>
          LET i == EnsureAt(trace')
              invalid == \/ Has(trace', "clear")
                         \/ session.cookies = <<>>
                         \/ session.lastLogin = NullTime
                         \/ now - session.lastLogin > 30 * 60 * 1000
          IN /\ Count(trace', "ensureSession") = 1
             /\ CalledOnArrival(r) \/ Has(trace', "clear")
             /\ IF invalid
                  THEN /\ Count(trace', "login") = 1
                       /\ Names(trace', i, i + 1) = <<"ensureSession", "login">>
                  ELSE /\ Count(trace', "login") = 0
                       /\ Names(trace', i, i + 1) = <<"ensureSession", "invoke">>
                       /\ session' = session
                       /\ cookieJar' = cookieJar
                       /\ req'[r].pc \notin {"login_wait", "disc1_wait", "disc2_wait"} ]_vars

\* ensureSession has just returned without a login on a session that is
\* exactly 30 minutes old
C7_Witness ==
  /\ trace # <<>> /\ trace[1].e = "ensureSession" /\ ~Has(trace, "login")
  /\ session.lastLogin # NullTime /\ now - session.lastLogin = SESSION_TTL

\* C8: whenever ensureSession is called in a state in which lastLogin is
\* non-null and not older than 30 minutes, it calls no login; when lastLogin
\* is null or older, it calls login exactly once.  (Violated: with lastLogin
\* recent and cookies null, a state that login() leaves behind when it
\* fails or is still in flight, ensureSession calls login.)
C8_RecentLastLoginNoLogin ==
  [][ \A r \in Slots :
        CalledOnArrival(r) =>
          IF session.lastLogin # NullTime /\ now - session.lastLogin <= 30 * 60 * 1000
            THEN Count(trace', "login") = 0
            ELSE Count(trace', "login") = 1 ]_vars

\* the SessionExpired kind of error: what the catch of withSessionRetry tests
SessionExpiredKind(msg) == Includes(msg, "session_expired") \/ Includes(msg, "non-JSON")

\* the operation withSessionRetry is retrying for slot r
Retrying(r) ==
  IF req[r].ctx = "retry_storage" THEN "storage"
  ELSE IF req[r].ctx = "retry_plant" THEN "plant" ELSE ""

\* C9: withSessionRetry invokes its operation at most twice and calls login
\* at most once, between the two invocations; when the second invocation
\* fails again with a SessionExpired-kind error, the error goes straight to
\* the caller: no clearing of lastLogin, no login, no third invocation.
C9_RetryBound ==
  [][ \A r \in Slots :
        StepOf(r) =>
          /\ req'[r].attempt <= 2
          /\ req'[r].attempt >= 1 => req'[r].logins <= 1
          /\ req'[r].attempt = 2 => req'[r].logins = 1
          /\ \A i \in 1..Len(trace') :
               /\ trace'[i].e = "invoke" => trace'[i].n \in {1, 2}
               /\ trace'[i].e = "rejected" /\ trace'[i].n >= 2 =>
                    /\ trace'[i].n = 2
                    /\ i < Len(trace')
                    /\ trace'[i + 1] = Event("caught", trace'[i].op, trace'[i].msg, 2)
                    /\ \A j \in (i + 1)..Len(trace') :
                         ~(trace'[j].e = "invoke" /\ trace'[j].op = trace'[i].op) ]_vars

\* the second invocation failed with a SessionExpired-kind error, which the
\* handler caught
C9_Witness ==
  \E i \in 1..Len(trace) :
    /\ trace[i].e = "rejected" /\ trace[i].n = 2 /\ SessionExpiredKind(trace[i].msg)
    /\ i < Len(trace) /\ trace[i + 1].e = "caught" /\ trace[i + 1].msg = trace[i].msg

\* C10: when the first invocation of the operation fails with a
\* SessionExpired-kind error, withSessionRetry clears lastLogin, then calls
\* ensureSession, which calls login, in that order, and awaits it with
\* lastLogin still null; when that login returns, the operation is invoked
\* once more, as the second and last invocation; when that login rejects,
\* the operation is not invoked again and the error of the login is what
\* the handler catches.
C10_ClearLoginRetry ==
  [][ \A r \in Slots :
        StepOf(r) =>
          /\ \A i \in 1..Len(trace') :
               trace'[i].e = "rejected" /\ trace'[i].n = 1
                 /\ SessionExpiredKind(trace'[i].msg) =>
                   /\ Names(trace', i + 1, i + 3) = <<"clear", "ensureSession", "login">>
                   /\ req'[r].pc = "login_wait" =>
                        /\ session'.lastLogin = NullTime
                        /\ req'[r].attempt = 1
                        /\ Retrying(r)' = trace'[i].op
          /\ Retrying(r) # "" /\ Continues(r) /\ Has(trace', "login_ok") =>
               /\ \A i \in 1..Len(trace') :
                    trace'[i].e = "login_ok" =>
                      /\ \A j \in 1..(i - 1) : trace'[j].e = "no_devices"
                      /\ Names(trace', i, i + 1) = <<"login_ok", "invoke">>
                      /\ trace'[i + 1].op = Retrying(r) /\ trace'[i + 1].n = 2
               /\ Cardinality({j \in 1..Len(trace') :
                     trace'[j].e = "invoke" /\ trace'[j].op = Retrying(r)}) = 1
          /\ \A i \in 1..Len(trace') :
               trace'[i].e = "login_err"
                 /\ (Retrying(r) # "" \/ Has(trace', "clear")) =>
                   LET op == IF Retrying(r) # "" THEN Retrying(r)
                             ELSE trace'[CHOOSE j \in 1..Len(trace') : trace'[j].e = "clear"].op
                   IN /\ i < Len(trace')
                      /\ trace'[i + 1] = Event("caught", op, trace'[i].msg, 1)
                      /\ \A j \in i..Len(trace') :
                           ~(trace'[j].e = "invoke" /\ trace'[j].op = op) ]_vars

\* the operation is being retried after a login that succeeded
C10_Witness ==
  /\ Len(trace) = 2 /\ trace[1].e = "login_ok"
  /\ trace[2].e = "invoke" /\ trace[2].n = 2
  /\ \E r \in Slots : req[r].attempt = 2 /\ req[r].logins = 1

\* C11: in a /api/data refresh the failure of one storage source, of
\* whatever kind, does not abort the other sources: once the energy-overview
\* request is answered, the storage-params request is sent next with the
\* storage-detail result kept (or, on a first SessionExpired-kind failure,
\* the re-login of the retry is started), so that the snapshot keeps the
\* fields of the sources that succeeded.  (Violated: an energy overview
\* answered with HTML again on the retry makes getStorageData reject; the
\* storage-params request is never sent and the storage-detail result is
\* dropped.)
C11_SourceFailureIsolated ==
  [][ \A r \in Slots :
        Continues(r) /\ req[r].pc = "energy_wait" =>
          \/ /\ req'[r].pc = "params_wait"
             /\ req'[r].detail = req[r].detail
          \/ /\ req[r].attempt = 1
             /\ req'[r].pc = "login_wait"
             /\ Retrying(r)' = "storage" ]_vars

\* the kind of the request whose handler runs in this step of slot r
KindOf(r) ==
  IF req[r].pc # "idle" THEN req[r].kind
  ELSE IF ConnectRequest(r) THEN "connect" ELSE "data"

\* C12: a GET /api/connect or GET /api/data handler ends exactly when it
\* sends its response, sends a single response, and the response is either
\* success:true or success:false with the message of the error; every error
\* raised by login, discovery, an upstream fetch or parsing is caught inside
\* the handler (it is followed there by a catch or by the failure response).
C12_OneResponse ==
  [][ \A r \in Slots :
        StepOf(r) =>
          /\ Len(out') <= 1
          /\ req'[r].pc = "idle" <=> Len(out') = 1
          /\ out' # <<>> =>
               /\ out'[1].kind = KindOf(r)
               /\ \/ out'[1].response.success /\ out'[1].response.error = NoErr
                  \/ ~out'[1].response.success /\ out'[1].response.error # NoErr
          /\ \A i \in 1..Len(trace') :
               trace'[i].e \in {"login_err", "rejected"} =>
                 \/ i < Len(trace') /\ trace'[i + 1].e \in {"caught", "clear"}
                 \/ i = Len(trace') /\ out' # <<>>
                      /\ out'[1].response = ErrResponse(trace'[i].msg) ]_vars

\* /api/connect answered success:false after device discovery threw
C12_Witness ==
  /\ Sent("connect") /\ ~out[1].response.success
  /\ Has(trace, "login_err") /\ Includes(out[1].response.error, "session_expired")

\* C13: without configured credentials a call of login rejects at once with
\* the configuration error: nothing is sent upstream (no handler is ever
\* awaiting an answer), the session and the cookie jar stay as they are, and
\* the handler of /api/connect or of a cache-miss /api/data answers
\* success:false with exactly that message, after a single call of login.
C13_ConfigError ==
  [][ \A r \in Slots :
        StepOf(r) /\ ~creds =>
          /\ \A r2 \in Slots : req'[r2].pc = "idle"
          /\ Has(trace', "login") =>
               /\ session' = session
               /\ cookieJar' = cookieJar
               /\ Count(trace', "login") = 1
               /\ trace'[Len(trace')] = Event("login_err", "", ConfigErrMsg, 0)
               /\ ~Has(trace', "invoke")
               /\ out' = <<[kind |-> KindOf(r), response |-> ErrResponse(ConfigErrMsg)]>> ]_vars

\* a cache-miss /api/data answered with the configuration error
C13_Witness ==
  ~creds /\ Sent("data") /\ out[1].response = ErrResponse(ConfigErrMsg) /\ Has(trace, "login")

\* the errors of login for a parsed answer without back, with back.success
\* false, or without plants (449, 455, 467)
ValidationErrors == {LoginNoBackMsg, LoginRejectedMsg, NoPlantsMsg}

\* C14: a login whose parsed answer has no back, or back.success false, or
\* a missing or empty plant list, rejects with its error in the step that
\* reads the answer; that step does not set lastLogin to the current time
\* (lastLogin stays as it is, or is set to null by the catch of /api/data),
\* changes none of userId, plantId, plantName, deviceSn, and sends no
\* device-discovery request.
C14_LoginValidation ==
  [][ \A r \in Slots :
        Continues(r) /\ req[r].pc = "login_wait" /\ Has(trace', "login_err")
          /\ trace'[1].msg \in ValidationErrors =>
            /\ trace'[1].e = "login_err"
            /\ Identifiers(session') = Identifiers(session)
            /\ session'.lastLogin =
                 IF req[r].ctx = "ensure" THEN NullTime ELSE session.lastLogin
            /\ req'[r].pc \notin {"disc1_wait", "disc2_wait"}
            /\ ~Has(trace', "login_ok") ]_vars

\* a login without plants failed and left the identifiers and lastLogin of
\* an earlier login in place
C14_Witness ==
  /\ trace # <<>> /\ trace[1] = Event("login_err", "", NoPlantsMsg, 0)
  /\ session.lastLogin # NullTime /\ session.plantId # "" /\ session.deviceSn # ""

\* C15: lastLogin is the time of the last successful login: a call of login
\* that ends in an error has not written lastLogin.  Its error comes before
\* lastLogin is stamped (a call that has stamped it and is discovering the
\* devices does not end in an error), and the step of the error leaves
\* lastLogin as it is, or null by the catch of /api/data.  (Violated:
\* lastLogin is stamped before discoverDevices is awaited, and when a
\* device-list request fails the call ends in an error with lastLogin set.)
C15_StampOnlySuccessfulLogin ==
  [][ \A r \in Slots :
        Continues(r) /\ Has(trace', "login_err") =>
          /\ req[r].pc = "login_wait"
          /\ session'.lastLogin \in {session.lastLogin, NullTime} ]_vars

\* C16: when both device-listing requests yield zero devices, discovery
\* ends without an error, login returns (and /api/connect answers success
\* with the plant), and deviceSn is unset afterwards, also when an earlier
\* login had discovered a device.  (Violated: discoverDevices assigns
\* deviceSn only when a device is listed, so the serial of the earlier
\* login stays.)
C16_NoDevicesUnsetsDeviceSn ==
  [][ \A r \in Slots :
        Continues(r) /\ Has(trace', "no_devices") =>
          /\ req[r].pc = "disc2_wait"
          /\ Names(trace', 1, 2) = <<"no_devices", "login_ok">>
          /\ session'.deviceSn = ""
          /\ req[r].kind = "connect" =>
               /\ out' # <<>> /\ out'[1].response.success
               /\ out'[1].response.body.plantId = session'.plantId
               /\ out'[1].response.body.deviceSn = "" ]_vars

C18_StatusFrame ==
  [][ out' # <<>> /\ out'[1].kind = "status" =>
        /\ session' = session
        /\ cookieJar' = cookieJar
        /\ req' = req
        /\ trace' = <<>>
        /\ Len(out') = 1
        /\ out'[1].response.connected = (session.cookies # <<>>)
        /\ out'[1].response.plantName = session.plantName
        /\ out'[1].response.deviceSn = session.deviceSn
        /\ out'[1].response.lastLogin =
             (IF session.lastLogin = NullTime THEN <<>> ELSE <<"ISO", session.lastLogin>>)
        /\ out'[1].response.lastFetch =
             (IF session.lastFetch = 0 THEN <<>> ELSE <<"ISO", session.lastFetch>>) ]_vars

\* /api/status answered while a login is in flight: lastLogin is reported
\* and connected is false
C18_Witness ==
  /\ Sent("status") /\ ~out[1].response.connected
  /\ out[1].response.lastLogin # <<>> /\ out[1].response.lastFetch # <<>>
  /\ \E r \in Slots : req[r].pc = "login_wait"

\* all Set-Cookie values captured since the jar was last emptied, in order
RECURSIVE Flatten(_)
Flatten(lists) == IF lists = <<>> THEN <<>> ELSE Head(lists) \o Flatten(Tail(lists))

\* the positions in a sequence of Set-Cookie values of those that name n
Naming(raws, n) ==
  {i \in 1..Len(raws) : \E v \in CookieValues : raws[i] = RawCookie(n, v)}

\* the value the latest of them gives to n
LatestValue(raws, n) ==
  LET last == CHOOSE i \in Naming(raws, n) : \A j \in Naming(raws, n) : j <= i
  IN CHOOSE v \in CookieValues : raws[last] = RawCookie(n, v)

JarNames == {cookieJar[i].name : i \in 1..Len(cookieJar)}

\* C19: after capturing any sequence of responses the jar holds at most
\* one entry per cookie name, holds an entry exactly for the names that
\* some captured Set-Cookie value named, and the value of each is the one
\* set by the latest such Set-Cookie value (the latest response and, within
\* it, the latest entry).
C19_LatestValuePerName ==
  /\ \A i, j \in 1..Len(cookieJar) : cookieJar[i].name = cookieJar[j].name => i = j
  /\ JarNames = {n \in CookieNames : Naming(Flatten(captured), n) # {}}
  /\ \A i \in 1..Len(cookieJar) :
       cookieJar[i].value = LatestValue(Flatten(captured), cookieJar[i].name)

\* a later response has replaced the value an earlier response set for a,
\* and within one response the later entry for b has won
C19_Witness ==
  /\ Len(captured) = 2
  /\ captured[1] = <<RawCookie(<<"a">>, <<"1">>), RawCookie(<<"b">>, <<"2">>)>>
  /\ captured[2] = <<RawCookie(<<"b">>, <<"2">>), RawCookie(<<"a">>, <<"2">>)>>
  /\ cookieJar = <<[name |-> <<"a">>, value |-> <<"2">>], [name |-> <<"b">>, value |-> <<"2">>]>>

\* the first n entries of the jar written as name=value and joined by '; '
RECURSIVE Joined(_, _)
Joined(jar, n) ==
  LET pair == jar[n].name \o <<"=">> \o jar[n].value
  IN IF n = 1 THEN pair ELSE Joined(jar, n - 1) \o <<";", " ">> \o pair

\* C20: in every reachable state session.cookies is null exactly when the
\* cookie jar is empty, and otherwise it is the jar's entries written as
\* name=value and joined by '; ' in insertion order; so it is after every
\* capture and after the reset at the start of login.
C20_CookieHeaderMatchesJar ==
  /\ session.cookies = <<>> <=> cookieJar = <<>>
  /\ cookieJar # <<>> => session.cookies = Joined(cookieJar, Len(cookieJar))

\* a login response has set two cookies and both are in the header
C20_Witness ==
  /\ Len(cookieJar) = 2
  /\ session.cookies = <<"s", "=", "1", ";", " ", "t", "=", "2">>
  /\ session.lastLogin # NullTime

\* the requests of kind data that await the answer to their own login POST
LoggingIn == {r \in Slots : req[r].kind = "data" /\ req[r].pc = "login_wait"}

\* C21: overlapping GET /api/data requests are not serialized.  A request
\* that misses the cache starts what it would start alone, whatever the
\* other requests have in flight: with the session invalid (and credentials
\* configured) it sends its own login POST, otherwise its own first
\* upstream fetch; and it leaves the requests in flight as they are.
C21_NoSingleFlight ==
  [][ \A r \in Slots :
        DataRequest(r) /\ ~SnapshotFresh /\ creds =>
          /\ SessionInvalid(session, now) =>
               /\ req'[r].pc = "login_wait"
               /\ Names(trace', 1, 2) = <<"ensureSession", "login">>
          /\ ~SessionInvalid(session, now) =>
               req'[r].pc = (IF session.deviceSn # "" THEN "detail_wait" ELSE "plant_wait")
          /\ \A r2 \in Slots \ {r} : req'[r2] = req[r2]
    ]_vars

\* two GET /api/data requests have each their own login POST in flight
C21_Witness == Cardinality(LoggingIn) = 2

\* two GET /api/data requests have each their own upstream fetch in flight
TwoRefreshesInFlight ==
  \A r \in Slots :
    req[r].kind = "data" /\ req[r].pc \in {"detail_wait", "energy_wait", "params_wait", "plant_wait"}

\* the positions of the candidates that parse to a number other than zero
Usable(vals) ==
  {i \in 1..Len(vals) : ~ParseFloat(vals[i]).nan /\ ParseFloat(vals[i]).n # 0}

First(S) == CHOOSE i \in S : \A j \in S : i <= j

\* the candidates 0, '', '12.5', '7'
Example == << <<"0">>, <<>>, <<"1", "2", ".", "5">>, <<"7">> >>

\* C22: for any ordered list of candidates, pf yields the first candidate
\* that parses to a number and is not zero, and 0 when every candidate is
\* missing, unparsable or zero; the candidates 0, '', '12.5', '7' yield
\* 12.5; the result is always a number.  (Numbers are in tenths.)
C22_NumericCoalesce ==
  call.fn = "pf" /\ call.done =>
    /\ call.result \in Int
    /\ Usable(call.args) = {} => call.result = 0
    /\ Usable(call.args) # {} =>
         call.result = ParseFloat(call.args[First(Usable(call.args))]).n
    /\ call.args = Example => call.result = 125
    /\ call.args \in {<< <<"0">>, <<"0", ".", "0">> >>, << Undefined, <<"a">>, <<>> >>} =>
         call.result = 0

\* pf has passed over a zero and an empty candidate and returned 12.5
C22_Witness == call.fn = "pf" /\ call.done /\ call.args = Example /\ call.result = 125

\* the positions 0, 2, 4, ... of a text, counted from 0
EvenIndexes(text) == {i \in 0..(Len(text) - 1) : i % 2 = 0}
OddIndexes(text) == {i \in 0..(Len(text) - 1) : i % 2 = 1}

\* C23: the credential hash is deterministic (hashing the same password
\* again yields the same text), has the length of the raw hex digest, has
\* no '0' at an even index (an even-index '0' of the digest is 'c' in the
\* hash), and equals the digest at every odd index and at every even index
\* where the digest has another character than '0'.
C23_CredentialHash ==
  call.fn = "growattHash" =>
    \A k \in 1..Len(call.result) :
      LET rawMd5 == call.args
          hash == call.result[k]
      IN /\ hash = call.result[1]
         /\ Len(hash) = Len(rawMd5)
         /\ \A i \in EvenIndexes(rawMd5) :
              /\ CharAt(hash, i) # "0"
              /\ CharAt(rawMd5, i) = "0" => CharAt(hash, i) = "c"
              /\ CharAt(rawMd5, i) # "0" => CharAt(hash, i) = CharAt(rawMd5, i)
         /\ \A i \in OddIndexes(rawMd5) : CharAt(hash, i) = CharAt(rawMd5, i)

\* a digest with '0' at the indexes 0 and 1 has been hashed twice: the '0'
\* at index 0 has become 'c' and the '0' at index 1 is kept
C23_Witness ==
  /\ call.fn = "growattHash" /\ Len(call.result) = 2
  /\ SubSeq(call.args, 1, 2) = <<"0", "0">>
  /\ SubSeq(call.result[2], 1, 2) = <<"c", "0">>

\* C24: once a fetch cycle has succeeded an auto-refresh timer is set, it
\* fires no later than 5 minutes from now, and when it fires it starts a
\* fetch cycle and fires next 5 minutes later; and at any time at most one
\* timer is set, the one refreshInterval names, however many times connect
\* and the load handler have started the auto refresh.
C24_AutoRefresh ==
  [][ /\ Cardinality(page'.timers) <= 1
      /\ \A tm \in page'.timers :
           /\ tm.id = page'.refreshInterval
           /\ tm.due - page'.clock \in 0..REFRESH_MS
      /\ page'.fetched => page'.timers # {}
      /\ page'.fired =>
           /\ page'.fetches = page.fetches + 1
           /\ \E tm \in page.timers :
                /\ tm.due = page.clock
                /\ page'.timers = {[tm EXCEPT !.due = page.clock + REFRESH_MS]}
    ]_vars

\* connect and the load handler have both started the auto refresh, a
\* fetch cycle has succeeded and the timer has fired since
C24_Witness ==
  /\ page.fired /\ page.fetched
  /\ page.nextId > 2
  /\ Cardinality(page.timers) = 1

\* the Set-Cookie lists of the answers the vendor may give
SetCookieAnswers ==
  {res.setCookie : res \in LoginResponses \cup DeviceResponses \cup DetailResponses
                            \cup EnergyResponses \cup ParamsResponses \cup PlantResponses}

\* C25: a step in which login is called with credentials configured ends
\* with the login POST on the wire, the cookies null and the jar empty: the
\* reset precedes the request (which is built from literal headers, 398-406,
\* and carries no Cookie header).  The jar changes in no other way than by
\* that reset and by captureCookies on a response of the vendor: a step that
\* changes it either calls login and leaves it empty, or is the arrival of a
\* response whose Set-Cookie values were captured into the jar as it was.
C25_LoginResetsCookies ==
  [][ /\ \A r \in Slots :
           StepOf(r) /\ creds /\ Has(trace', "login") =>
             /\ req'[r].pc = "login_wait"
             /\ session'.cookies = <<>>
             /\ cookieJar' = <<>>
      /\ cookieJar' # cookieJar \/ session'.cookies # session.cookies =>
           \/ Has(trace', "login") /\ cookieJar' = <<>> /\ session'.cookies = <<>>
           \/ /\ \E r \in Slots : Continues(r)
              /\ \E setCookies \in SetCookieAnswers \ {<<>>} :
                   /\ cookieJar' = CaptureAll(cookieJar, setCookies)
                   /\ session'.cookies = CookieHeader(cookieJar')
    ]_vars

\* a login has been started on a session that had logged in before: its
\* POST is on the wire and the cookies of the earlier login are gone
C25_Witness ==
  /\ Has(trace, "login")
  /\ \E r \in Slots : req[r].pc = "login_wait"
  /\ session.plantId # "" /\ session.cookies = <<>> /\ cookieJar = <<>>

\* the requests that await the answer of a device listing
Discovering == {r \in Slots : req[r].pc \in {"disc1_wait", "disc2_wait"}}

\* C26: a successful login proceeds in this order.  The step in which the
\* login POST is answered with success sets userId, plantId and plantName
\* from the user and the first plant of the answer, stamps lastLogin with
\* the time of the step, and ends with the first device listing requested,
\* no summary returned yet.  The login returns (login_ok) only in a later
\* step, the arrival of a device listing, and the summary that /api/connect
\* then sends holds the identifiers of the session.  Hence a device listing
\* is only ever awaited with plantId set to the first plant's id.
C26_LoginOrder ==
  [][ /\ \A r \in Slots :
           /\ Continues(r) /\ req[r].pc = "login_wait" /\ ~Has(trace', "login_err") =>
                /\ Identifiers(session')[1] = "u1"
                /\ Identifiers(session')[2] = "9001"
                /\ Identifiers(session')[3] = "Home"
                /\ session'.lastLogin = now
                /\ req'[r].pc = "disc1_wait"
                /\ ~Has(trace', "login_ok") /\ out' = <<>>
           /\ StepOf(r) /\ Has(trace', "login_ok") =>
                /\ r \in Discovering
                /\ session'.plantId = session.plantId
                /\ session'.lastLogin = session.lastLogin
                /\ req[r].kind = "connect" =>
                     /\ Sent("connect")' /\ out'[1].response.success
                     /\ out'[1].response.body =
                          [plantName |-> session'.plantName, plantId |-> session'.plantId,
                           userId |-> session'.userId, country |-> "ZA",
                           deviceSn |-> session'.deviceSn]
      /\ Discovering' # {} => session'.plantId = "9001"
    ]_vars

\* /api/connect has returned the summary of a login whose discovery found
\* the device: plant 9001 (the first of the two plants listed) and XYZ123
C26_Witness ==
  /\ Sent("connect") /\ out[1].response.success
  /\ out[1].response.body.plantId = "9001"
  /\ out[1].response.body.deviceSn = "XYZ123"
  /\ Has(trace, "login_ok")

\* the answer of a listing endpoint is read without an error: it is
\* received and its body is not HTML
Reads(res) == res.net /\ res.body.kind # "html"

\* the devices a listing answer yields: its deviceList, none when the body
\* has no deviceList or is not JSON
Listed(res) ==
  IF res.body.kind = "json" /\ "deviceList" \in DOMAIN res.body.value
    THEN res.body.value.deviceList
    ELSE <<>>

\* the serial of a device entry: the first of deviceSn, alias and sn that
\* is present
Serial(d) ==
  LET fields == <<d.deviceSn, d.alias, d.sn>>
      present == {k \in 1..3 : fields[k] # ""}
  IN IF present = {} THEN "" ELSE fields[CHOOSE k \in present : \A j \in present : k <= j]

\* C27: discoverDevices queries the secondary listing exactly when the
\* primary listing yields zero devices; when a listing yields devices,
\* deviceSn becomes the serial of the first of them (deviceSn, else alias,
\* else sn) and discovery returns without a further query; otherwise
\* deviceSn is left as it was.
C27_DeviceDiscovery ==
  [][ LET res == call'.args[Len(call'.args)]
          yields == Reads(res) /\ Listed(res) # <<>>
      IN /\ req[1].pc = "disc1_wait" =>
              (req'[1].pc = "disc2_wait" <=> Reads(res) /\ Listed(res) = <<>>)
         /\ req[1].pc = "disc2_wait" => req'[1].pc = "idle"
         /\ yields =>
              /\ session'.deviceSn = Serial(Listed(res)[1])
              /\ req'[1].pc = "idle" /\ Has(trace', "login_ok")
         /\ ~yields => session'.deviceSn = session.deviceSn
    ]_vars

\* the primary listing had no device, the secondary listed two, and the
\* first of them, which has no deviceSn, gave its alias
C27_Witness ==
  /\ call.fn = "discoverDevices" /\ Len(call.args) = 2
  /\ Listed(call.args[1]) = <<>>
  /\ Listed(call.args[2]) = <<Device("", "A1", "S1"), Device("D1", "", "")>>
  /\ session.deviceSn = "A1"

\* C28: GET /api/connect always makes a full login attempt: on arrival it
\* calls login at once, without ensureSession, whether or not the session
\* is present and within its TTL, and with credentials configured the
\* cookies and the jar are cleared and the login POST is sent.  No step of
\* a GET /api/connect request changes lastData or lastFetch.
C28_ConnectAlwaysLogsIn ==
  [][ \A r \in Slots :
        /\ ConnectRequest(r) =>
             /\ trace' # <<>> /\ trace'[1].e = "login"
             /\ ~Has(trace', "ensureSession")
             /\ creds =>
                  /\ req'[r].pc = "login_wait"
                  /\ session'.cookies = <<>> /\ cookieJar' = <<>>
        /\ ConnectRequest(r) \/ (req[r].kind = "connect" /\ Continues(r)) =>
             /\ session'.lastData = session.lastData
             /\ session'.lastFetch = session.lastFetch
    ]_vars

\* GET /api/connect has arrived at a session that has a snapshot and is
\* within its TTL, and has its login POST on the wire
C28_Witness ==
  /\ \E r \in Slots : req[r].kind = "connect" /\ req[r].pc = "login_wait"
  /\ trace # <<>> /\ trace[1].e = "login"
  /\ session.lastData # <<>>
  /\ session.lastLogin # NullTime /\ now - session.lastLogin <= SESSION_TTL

\* the text cut before its k-th comma counted from the end
CutAt(text, k) ==
  LET commas == {i \in 1..Len(text) : text[i] = ","}
      at == CHOOSE i \in commas : Cardinality({j \in commas : j >= i}) = k
  IN SubSeq(text, 1, at - 1)

\* the six closing suffixes, in the order they are tried
ClosingSuffixes ==
  << <<"}">>, <<"}", "}">>, <<"}", "}", "}">>, <<"}", "}", "}", "}">>,
     <<"]", "}">>, <<"]", "}", "}">> >>

\* the attempts <<round, suffix>> of a salvage that yield a text that parses
Salvages(text) ==
  LET commas == Cardinality({i \in 1..Len(text) : text[i] = ","})
      rounds == 1..(IF commas < 10 THEN commas ELSE 10)
  IN {at \in rounds \X (1..6) : JSONparse(CutAt(text, at[1]) \o ClosingSuffixes[at[2]]).ok}

\* the first of them: the earliest round and in it the earliest suffix
FirstSalvage(text) ==
  CHOOSE at \in Salvages(text) :
    \A o \in Salvages(text) : at[1] < o[1] \/ (at[1] = o[1] /\ at[2] <= o[2])

\* the three outcomes of safeJson on a body that is not strict JSON, with
\* Html(text) telling a page of HTML
ThreeOutcomes(Html(_)) ==
  call.fn = "safeJson" /\ call.done /\ ~JSONparse(call.args).ok =>
    LET text == call.args
        at == FirstSalvage(text)
    IN /\ Html(text) =>
            SessionExpiredKind(call.result.err) /\ call.result.val = EmptyObj
       /\ ~Html(text) /\ Salvages(text) # {} =>
            /\ call.result.err = NoErr
            /\ call.result.val = JSONparse(CutAt(text, at[1]) \o ClosingSuffixes[at[2]]).val
       /\ ~Html(text) /\ Salvages(text) = {} =>
            call.result.err = NoErr /\ call.result.val = EmptyObj

StartsWithLt(text) == text # <<>> /\ text[1] = "<"

StartsWithLtAfterBlanks(text) ==
  \E i \in 1..Len(text) : text[i] = "<" /\ \A j \in 1..(i - 1) : text[j] = " "

\* C29 as stated: tolerant parsing of a body that is not strict JSON has
\* exactly three outcomes: a SessionExpired-kind error when the body starts
\* with '<'; otherwise the first value that parses after truncating at the
\* last comma and appending one of the six closing suffixes, within at
\* most 10 truncation rounds; otherwise an empty object.  (Violated: a page
\* of HTML that begins with blanks is a SessionExpired error too, since
\* the test is on text.trim().)
C29_ThreeOutcomes == ThreeOutcomes(StartsWithLt)

\* C29 amended: the same three outcomes, the first of them when the body
\* starts with '<' after its leading blanks; the error of the strict parse
\* is never what safeJson ends with.
C29_ThreeOutcomesTrimmed == ThreeOutcomes(StartsWithLtAfterBlanks)

\* the document cut inside its inner object was salvaged in the first
\* round by the second suffix, after the first suffix had failed
C29_Witness ==
  /\ call.fn = "safeJson" /\ call.done
  /\ call.args = SubSeq(Document, 1, 21)
  /\ FirstSalvage(call.args) = <<1, 2>>
  /\ call.result.err = NoErr
  /\ call.result.val =
       <<"obj", << <<"a", <<"obj", << <<"a", <<"num", "1">> >> >> >> >>,
                   <<"b", <<"arr", << <<"num", "1">>, <<"num", "1">> >> >> >> >> >>

\* the voltages written 0, 49.9, -3 and 0.1 are below 50; those written 50,
\* 230, 49.9 and 0.1 are positive
Below50 == { <<"0">>, <<"4", "9", ".", "9">>, <<"-", "3">>, <<"0", ".", "1">> }
Positive == { <<"5", "0">>, <<"2", "3", "0">>, <<"4", "9", ".", "9">>, <<"0", ".", "1">> }

\* C30: the grid status of the snapshot is 'off-grid' exactly when the AC
\* voltage (vac of the storage-params bean) parses to a number below 50 and
\* the grid voltage (vGrid of storage detail) parses to a positive number;
\* in every other case, a value missing or its source failed included, it
\* is 'connected'.
C30_GridStatus ==
  call.fn = "Normalize" /\ call.done =>
    /\ call.result.gridStatus \in {"off-grid", "connected"}
    /\ call.result.gridStatus = "off-grid" <=>
         call.args.vac \in Below50 /\ call.args.vGrid \in Positive

\* off-grid: vac 49.9 and vGrid 0.1
C30_Witness ==
  /\ call.fn = "Normalize" /\ call.done
  /\ call.args.vac = <<"4", "9", ".", "9">> /\ call.args.vGrid = <<"0", ".", "1">>
  /\ call.result.gridStatus = "off-grid"

\* connected: the storage-params source failed while vGrid is 230
ConnectedWhenSourceFailed ==
  /\ call.fn = "Normalize" /\ call.done
  /\ call.args.storageRaw.params = EmptyObj /\ call.args.vGrid = <<"2", "3", "0">>
  /\ call.result.gridStatus = "connected"

\* the upstream calls a GET /api/data request can make at most: login and
\* two listings (3), three storage sources (3), a re-login and the three
\* sources again (6), plant detail (1), a re-login and plant detail again (4)
MostCalls == 3 + 3 + (3 + 3) + 1 + (3 + 1)

\* C31: when every upstream call eventually returns or fails, every GET
\* /api/data request that is being handled eventually sends its response
\* and its handler ends; at no moment has a request sent more than 17
\* upstream calls, so no request loops.
C31_DataTerminates ==
  /\ [](call.result.calls <= MostCalls)
  /\ \A r \in Slots :
       (req[r].kind = "data") ~> (req[r].pc = "idle" /\ Sent("data"))

\* a GET /api/data request has sent its response after 17 upstream calls
C31_Witness ==
  /\ Sent("data") /\ out[1].response.success
  /\ call.done /\ call.result.calls = 17


\* a call of login ended in an error in the last step
LoginFailed == Has(trace, "login_err")

\* C32: a failed login never leaves the session looking valid.  In the
\* state after a step in which a call of login ended in an error, whatever
\* the error and whether GET /api/connect or GET /api/data called it, the
\* condition of ensureSession holds, so that the next call of ensureSession
\* performs a login.  (Violated: login stamps lastLogin before it awaits the
\* device discovery and captures the cookies of the answer before it tests
\* it; a login that fails after that leaves cookies and a recent lastLogin,
\* which /api/connect never clears and /api/data clears only for a message
\* with 'Login' or 'session' in it.)
C32_FailedLoginInvalidates ==
  LoginFailed => SessionInvalid(session, now)


\* the handler of slot r is past its initial ensureSession: it awaits a
\* storage source, plant detail, or the login of a session retry
PastEnsure(r) ==
  /\ req[r].kind = "data" /\ req[r].pc # "idle"
  /\ req[r].ctx # "ensure"

\* the numeric fields of a snapshot
NumericFields == {"batterySoc", "batteryVoltage", "pvTodayEnergy", "loadTodayEnergy", "gridVoltage"}

AllZero(snapshot) == \A f \in NumericFields : snapshot[f] = 0

\* C33: once ensureSession has succeeded in a cache-miss GET /api/data
\* request, the request cannot fail any more.  A step of it sends nothing
\* or success:true, cached:false, and then lastData is the snapshot sent and
\* lastFetch the time of the step; when the storage fetch has failed, the
\* snapshot stored has zero in every numeric field, whatever became of the
\* plant-detail fetch.  success:false is sent only in the step in which
\* the login of the initial ensureSession ends in an error, with that error.
C33_SuccessAfterEnsure ==
  [][ \A r \in Slots :
        /\ PastEnsure(r) /\ Continues(r) =>
             /\ ~Failed' /\ ~Hit'
             /\ req'[r].pc = "idle" => Fetched'
             /\ Fetched' =>
                  /\ session'.lastData = <<out'[1].response.body>>
                  /\ session'.lastFetch = now
                  /\ req[r].storageRaw = NoStorage => AllZero(session'.lastData[1])
        /\ DataStep(r) /\ Has(trace', "ensureSession") /\ ~Has(trace', "login_err") =>
             ~Failed'
        /\ DataStep(r) /\ Has(trace', "login_ok") => ~Failed'
        /\ DataStep(r) /\ Failed' =>
             /\ DataRequest(r) \/ req[r].ctx = "ensure"
             /\ \E i \in 1..Len(trace') :
                  /\ trace'[i].e = "login_err"
                  /\ out'[1].response.error = trace'[i].msg ]_vars

\* a refresh has stored and sent a snapshot of zeros: there is no device,
\* so the storage fetch had failed, and the plant-detail fetch failed too
C33_Witness ==
  /\ Fetched
  /\ \E i \in 1..Len(trace) : trace[i].e = "caught" /\ trace[i].op = "plant"
  /\ session.deviceSn = ""
  /\ session.lastData = <<out[1].response.body>> /\ session.lastFetch = now
  /\ AllZero(session.lastData[1])


\* the logins the observed request has started, from all origins
Logins == call.result.logins["ensure"] + call.result.logins["storage"] + call.result.logins["plant"]

\* C34: a GET /api/data request starts at most three logins: at most one
\* from its initial ensureSession, at most one from the session retry
\* around the storage fetch and at most one from the session retry around
\* the plant-detail fetch.
C34_ThreeLogins ==
  /\ \A o \in Origins : call.result.logins[o] <= 1
  /\ Logins <= 3

\* a request that has sent its response started a login from each origin
C34_Witness ==
  /\ call.done /\ Sent("data")
  /\ \A o \in Origins : call.result.logins[o] = 1


\* event i of a trace is the rejection of a first invocation with an error
\* that is not of the SessionExpired kind
OtherRejection(tr, i) ==
  tr[i].e = "rejected" /\ tr[i].n = 1 /\ ~SessionExpiredKind(tr[i].msg)

\* C35: when the operation of withSessionRetry fails with an error that is
\* not of the SessionExpired kind, the error goes to the caller after that
\* single invocation: the next event is the handler catching the same error,
\* and nothing after the rejection clears lastLogin, calls ensureSession or
\* login, or invokes the operation again; a step in which no login starts
\* or ends leaves lastLogin, the cookie header and the cookie jar as they
\* were.
C35_OtherErrorsPropagate ==
  [][ \A r \in Slots :
        StepOf(r) =>
          \A i \in 1..Len(trace') :
            OtherRejection(trace', i) =>
              /\ trace'[i].msg \in {NetErrMsg, NoDeviceMsg}
              /\ i < Len(trace')
              /\ trace'[i + 1] = Event("caught", trace'[i].op, trace'[i].msg, 1)
              /\ \A j \in 1..Len(trace') :
                   /\ trace'[j].e # "clear"
                   /\ j > i => trace'[j].e \notin {"ensureSession", "login"}
                   /\ j # i - 1 => ~(trace'[j].e = "invoke" /\ trace'[j].op = trace'[i].op)
              /\ ~Has(trace', "login") /\ ~Has(trace', "login_ok") /\ ~Has(trace', "login_err") =>
                   /\ session'.lastLogin = session.lastLogin
                   /\ session'.cookies = session.cookies
                   /\ cookieJar' = cookieJar ]_vars

\* the first invocation of getPlantDetail failed with a network error, which
\* the handler caught, and the session is valid as it was
C35_Witness ==
  /\ Len(trace) = 2
  /\ trace[1] = Event("rejected", "plant", NetErrMsg, 1)
  /\ trace[2] = Event("caught", "plant", NetErrMsg, 1)
  /\ ~SessionInvalid(session, now)

\* the first invocation of getStorageData failed for want of a device
NoDeviceRejected ==
  \E i \in 1..Len(trace) : trace[i] = Event("rejected", "storage", NoDeviceMsg, 1)


\* the step wrote lastData or lastFetch
CacheWritten ==
  session'.lastData # session.lastData \/ session'.lastFetch # session.lastFetch

\* C36: lastData and lastFetch are written only by the step of a GET
\* /api/data request that answers with a newly fetched snapshot, both in
\* that one step (lastData the snapshot of the answer, lastFetch the time of
\* the step); steps of /api/connect, steps in which login or ensureSession
\* run, in which withSessionRetry clears lastLogin or in which cookies are
\* captured leave them alone unless they end in that store; and lastData is
\* non-null exactly when lastFetch is non-zero.
C36_CacheWrittenOnlyOnSuccess ==
  /\ [](session.lastData # <<>> <=> session.lastFetch # NullTime)
  /\ [][ /\ CacheWritten =>
              /\ Fetched'
              /\ \E r \in Slots : MissStep(r) /\ req'[r].pc = "idle"
              /\ session'.lastData = <<out'[1].response.body>>
              /\ session'.lastFetch = now'
         /\ \A r \in Slots :
              (ConnectRequest(r) \/ (req[r].kind = "connect" /\ Continues(r))) => ~CacheWritten
         /\ ~Fetched' => ~CacheWritten ]_vars

\* a login has just succeeded while a snapshot was stored, and the snapshot
\* and its time are still there
C36_Witness ==
  /\ Has(trace, "login_ok") /\ ~Fetched
  /\ session.lastData # <<>> /\ session.lastFetch # NullTime
  /\ session.lastLogin > session.lastFetch


\* a call of ensureSession returns normally in this step of slot r: on the
\* arrival of GET /api/data with a valid session (659), or when the login it
\* awaited for /api/data or withSessionRetry resolves (495, 505)
EnsureSessionReturns(r) ==
  \/ DataRequest(r) /\ Has(trace', "ensureSession") /\ ~Has(trace', "login")
  \/ /\ Continues(r)
     /\ req[r].ctx \in {"ensure", "retry_storage", "retry_plant"}
     /\ Has(trace', "login_ok")

\* C37: whenever ensureSession returns normally within a request, lastLogin
\* is non-null and not older than 30 minutes at that moment, whatever other
\* requests overlap with it.  (Violated: while the login that ensureSession
\* awaits is discovering devices, withSessionRetry of an overlapping request
\* sets lastLogin to null; the login then resolves and ensureSession
\* returns with lastLogin null.)
C37_EnsureReturnsValid ==
  [][ \A r \in Slots :
        EnsureSessionReturns(r) =>
          /\ session'.lastLogin # NullTime
          /\ now' - session'.lastLogin <= SESSION_TTL ]_vars


\* C38: with overlapping GET /api/data requests, the cached snapshot is
\* never replaced by a snapshot built from storage answers that were all
\* received before the first of the answers the replaced snapshot was
\* built from.  (Violated: a request whose storage answers came in first
\* and whose plant-detail answer came in last stores its snapshot over the
\* one of a request that fetched later and finished sooner.)
C38_CacheNeverMovesBack ==
  [][ /\ call'.result.cached # call.result.cached
      /\ call.result.cached # NoReceipt
      /\ call'.result.cached # NoReceipt
      => call'.result.cached.last >= call.result.cached.first ]_vars

=============================================================================
